---- MODULE Spec2Model ----
(***************************************************************************)
(* Multi-provider authentication and session lifecycle of reqstly:         *)
(*   - the passkey-registration ceremony store kept in Redis               *)
(*     (backend/src/auth/passkey.rs),                                      *)
(*   - the session table (backend/src/models/session.rs),                  *)
(*   - the identity resolver (backend/src/models/external_identities.rs),  *)
(*   - the session guards (backend/src/auth/auth_context.rs),              *)
(*   - the password and passkey handlers (backend/src/auth/password.rs,    *)
(*     backend/src/auth/passkey.rs),                                       *)
(*   - the password and passkey-credential tables                          *)
(*     (backend/src/models/password.rs, backend/src/models/passkey.rs),    *)
(*   - the in-process counters (backend/src/metrics.rs).                   *)
(* Time is counted in seconds.  Random values (session tokens, UUIDs,      *)
(* WebAuthn challenges) are modelled as fresh values; SHA-256 and          *)
(* base64url are modelled as injective constructors.                       *)
(***************************************************************************)
EXTENDS Integers, Sequences, FiniteSets, TLC

VARIABLES
    now,            \* wall clock, seconds
    \* ---- ceremony store (Redis) and the workers running consume ----
    redis,          \* key -> None | Some([value, expires_at])
    nextChallenge,  \* number of the next WebAuthn registration challenge
    cpc,            \* consume call -> "idle" | "got" | "done"
    ckey,           \* worker -> None | Some(redis key) of the call in progress
    nonce,          \* worker -> what GET returned (Option<String>)
    cresult,        \* worker -> None | Some(Result) of the call
    \* ---- history of the ceremony store ----
    lastStored,     \* key -> challenge of the latest store under it (0: none)
    deliveries,     \* challenge -> number of consume calls that returned it
    startConsumed,  \* worker -> when its GET ran, had the record last stored
                    \*           under its key been returned by a finished call
    startExpired,   \* worker -> when its GET ran, did its key hold a record
                    \*           whose TTL had elapsed
    \* ---- relational store: sessions and external identities ----
    sessions,       \* set of rows of table sessions
    sessionsCreated,\* number of Session::create calls so far (source of the
                    \* fresh session ids and tokens)
    \* ---- history of the session manager ----
    issued,         \* what Session::create returned: [token, id, user_id]
    invalidated,    \* issued tokens whose session was explicitly invalidated
    sessionExpiry,  \* session id -> expires_at last returned by create/extend
    \* ---- calls of the session manager and what they returned ----
    lastCall,       \* the latest call: [op, arg, result, rows]
    cleanedCount,   \* session id -> number of cleanup_expired runs that
                    \*               counted it
    cleanupReturned,\* sum of the counts cleanup_expired has returned
    \* ---- relational store: users and external identities ----
    users,          \* set of rows of table users
    usersCreated,   \* number of users rows inserted so far (source of the
                    \* fresh user ids)
    identities,     \* set of rows of table external_identities
    \* ---- calls of resolve_user_from_external_identity ----
    rpc,            \* call -> "idle" | "found" | "miss" | "create" | "link"
                    \*         | "done"
    rargs,          \* call -> None | Some([provider, subject, email, name])
    rident,         \* call -> identity returned by find_by_provider_subject
    ruser,          \* call -> user found by email or created
    rresult,        \* call -> None | Some(Result<User, AppError>)
    \* ---- history of the resolve calls ----
    rprior,         \* call -> calls that had returned when it started
    rexisting,      \* call -> identity stored for its (provider, subject)
                    \*         when it started
    rnewUser,       \* call -> it inserted a users row
    rnewIdentity,   \* call -> it inserted an external_identities row
    rlostRace,      \* call -> its User::create met an email inserted after
                    \*         its own find_by_email found none
    \* ---- requests passing the auth guard ----
    gpc,            \* request -> "idle" | "found" | "done"
    greq,           \* request -> None | Some(cookie it carries)
    gfound,         \* request -> what find_valid returned to it
    gctx,           \* request -> None | Some(Result<AuthContext, AppError>)
    gresult,        \* request -> None | Some(extractor -> its result)
    \* ---- relational store: passwords ----
    passwords,      \* set of rows of table passwords
    hashesMade,     \* number of bcrypt hashes computed so far (source of
                    \* the fresh salts)
    pwLastCall,     \* the latest call of the model Password:
                    \* [op, user_id, password, before, result]
    \* ---- calls of the handlers password_signup, password_login and
    \*      passkey_register_start ----
    hpc,            \* call -> "idle" | the await it has reached | "done"
    hargs,          \* call -> None | Some([handler, email, name, password,
                    \*                      cookie])
    huser,          \* call -> the User it has loaded or created
    hsession,       \* call -> (user_id, session_token) of register start
    hcookie,        \* call -> session cookie the response sets
    hresult,        \* call -> None | Some(Result) of the call
    \* ---- history of the handlers ----
    hlookupFailed,  \* call -> its Session::find_valid failed on the store
    hverified,      \* call -> its password check succeeded
    hnewUser,       \* call -> it inserted a users row
    sessionOrigin,  \* session id -> None | Some(call that created it)
    \* ---- relational store: passkey credentials ----
    credentials,    \* set of rows of table passkey_credentials
    pkLastCall,     \* the latest call of the model PasskeyCredential:
                    \* [op, credential_id, counter, before, result]
    \* ---- in-process metrics: the static mut counters and the workers
    \*      running an increment ----
    counts,         \* counter -> value of the static
    mpc,            \* worker -> "idle" | "loaded"
    mcounter,       \* worker -> None | Some(counter it is incrementing)
    mreg,           \* worker -> value it read from the static
    incremented,    \* counter -> number of increment calls that returned
    \* ---- conversions between enum values and their stored strings ----
    conv,           \* the latest conversion: [type, value, text, parsed]
    \* ---- passkey_register_finish calls ----
    hnonce,         \* call -> what its GET of the ceremony record returned
    hcredential,    \* call -> did it insert a passkey credential
    \* ---- requests, their audit log and the calls of the request
    \*      handlers ----
    requestRows,    \* the rows of table requests
    requestsCreated,\* number of rows inserted so far
    audit_logs,     \* the rows of table audit_logs
    auditsCreated,  \* number of audit rows inserted so far
    qpc,            \* call -> "idle" | step label | "done"
    qargs,          \* call -> None | Some(arguments)
    qexisting,      \* call -> the row the handler's find_by_id returned
    qread,          \* call -> the row Request::update's find_by_id returned
    qaudit,         \* call -> id of the StatusChanged entry it wrote,
                    \*         while the call runs
    qlast           \* None | Some(the call that returned last)

sessionVars == <<sessions, sessionsCreated, issued, invalidated,
                 sessionExpiry>>

resolveVars == <<users, usersCreated,
                   identities, rpc, rargs, rident, ruser, rresult,
                 rprior, rexisting, rnewUser, rnewIdentity, rlostRace>>

ceremonyVars == <<redis, nextChallenge, cpc, ckey, nonce, cresult,
                  lastStored, deliveries, startConsumed, startExpired>>

sessionCallVars == <<lastCall, cleanedCount, cleanupReturned>>

guardVars == <<gpc, greq, gfound, gctx, gresult>>

passwordVars == <<passwords, hashesMade, pwLastCall>>

handlerVars == <<hpc, hargs, huser, hsession, hcookie, hresult,
                 hlookupFailed, hverified, hnewUser, sessionOrigin>>

credentialVars == <<credentials, pkLastCall>>

metricsVars == <<counts, mpc, mcounter, mreg, incremented>>

(* State of the components added after the metrics. *)
convVars == <<conv>>
finishVars == <<hnonce, hcredential>>
requestVars == <<requestRows, requestsCreated, audit_logs, auditsCreated,
                 qpc, qargs, qexisting, qread, qaudit, qlast>>
extraVars == <<convVars, finishVars, requestVars>>

restVars == <<passwordVars, handlerVars, credentialVars, metricsVars,
              extraVars>>

outsideCeremony == <<sessionVars, sessionCallVars, resolveVars, guardVars,
                     restVars>>
outsideSession == <<ceremonyVars, resolveVars, guardVars, restVars>>
outsideResolve == <<ceremonyVars, sessionVars, sessionCallVars, guardVars,
                    restVars>>
outsideGuard == <<ceremonyVars, sessionVars, sessionCallVars, resolveVars,
                  restVars>>

vars == <<now, ceremonyVars, sessionVars, sessionCallVars, resolveVars,
          guardVars, restVars>>

----------------------------------------------------------------------------
(* Bounds of the model *)

NumWorkers == 2
MaxTokens == 2
MaxResolveCalls == 3
MaxStores == 2
MaxCeremonyTicks == 2
MaxSessionTicks == 2
MaxHandlerCalls == 2
MaxRegistrationCalls == 3
MaxRequestCalls == 3
MaxHashes == 3
MaxIncrements == 3

Workers == 1..NumWorkers
ResolveCalls == 1..MaxResolveCalls
HandlerCalls == 1..MaxHandlerCalls
RegistrationCalls == 1..MaxRegistrationCalls
HandlerSlots == HandlerCalls \cup RegistrationCalls
RequestCalls == 1..MaxRequestCalls

(* The two accounts whose ceremonies and sessions are followed. *)
UserIds == {1, 2}
Challenges == 1..MaxStores

----------------------------------------------------------------------------
(* Option and Result values *)

None == <<>>
Some(v) == <<v>>
Unwrap(o) == o[1]

Ok(v) == <<"Ok", v>>
Err(kind, msg) == <<"Err", kind, msg>>
IsOk(r) == r[1] = "Ok"

----------------------------------------------------------------------------
(* Tokens and digests *)

RandomBytes(n) == <<"rand", n>>
Sha256(data) == <<"sha256", data>>

base64_url_encode(data) == <<"b64url", data>>

generate_session_token_fixed(n) == base64_url_encode(RandomBytes(1))

generate_session_token(n) == base64_url_encode(RandomBytes(n))

hash_token(token) == base64_url_encode(Sha256(token))

Tokens == { generate_session_token(n) : n \in 1..MaxTokens }

----------------------------------------------------------------------------
(* Ceremony store: passkey registration state in Redis *)

PASSKEY_REG_TTL == 600
CeremonyTickSeconds == PASSKEY_REG_TTL \div 2

RegKey(token) == <<"passkey:register:", token>>

(* The ceremony is followed for one correlation token: Redis keys are
   independent of each other. *)
CeremonyTokens == { generate_session_token(1) }

RegKeys == { RegKey(t) : t \in Tokens }

PasskeyRegistration(c) == <<"challenge", c>>

to_string(v) == <<"json", v>>

from_str(s) == IF s[1] = "json" THEN Ok(s[2])
               ELSE Err("Unauthorized", "Invalid reg_state data")

RedisSetEx(store, key, value, ttl) ==
    [store EXCEPT ![key] = Some([value |-> value, expires_at |-> now + ttl])]

RedisGetStale(store, key) ==
    IF store[key] # None THEN Some(Unwrap(store[key]).value) ELSE None

RedisGet(store, key) ==
    IF store[key] # None /\ Unwrap(store[key]).expires_at > now
    THEN Some(Unwrap(store[key]).value)
    ELSE None

RedisDelNoop(store, key) == store

RedisDel(store, key) == [store EXCEPT ![key] = None]

(* store_session_passkey_reg_uid: one SETEX of the serialized
   (reg_state, user_id) under the token's key, TTL 600 s. *)
SetExRegState(token, uid) ==
    /\ nextChallenge <= MaxStores
    /\ LET c == nextChallenge
           value == to_string(<<PasskeyRegistration(c), uid>>)
       IN /\ redis' = RedisSetEx(redis, RegKey(token), value, PASSKEY_REG_TTL)
          /\ nextChallenge' = c + 1
          /\ lastStored' = [lastStored EXCEPT ![RegKey(token)] = c]

store_session_passkey_reg_uid(token, uid) ==
    /\ SetExRegState(token, uid)
    /\ UNCHANGED <<now, cpc, ckey, nonce, cresult, deliveries, startConsumed,
                   startExpired, outsideCeremony>>

ConsumeBegin(w, key) ==
    /\ ckey' = [ckey EXCEPT ![w] = Some(key)]
    /\ startConsumed' = [startConsumed EXCEPT ![w] =
                            /\ lastStored[key] # 0
                            /\ deliveries[lastStored[key]] > 0]
    /\ startExpired' = [startExpired EXCEPT ![w] =
                           /\ redis[key] # None
                           /\ Unwrap(redis[key]).expires_at <= now]

(* consume_session_passkey_reg_uid, line 42: GET finds a live record. *)
ConsumeGetHit(w, token) ==
    /\ cpc[w] = "idle"
    /\ RedisGet(redis, RegKey(token)) # None
    /\ ConsumeBegin(w, RegKey(token))
    /\ nonce' = [nonce EXCEPT ![w] = RedisGet(redis, RegKey(token))]
    /\ cpc' = [cpc EXCEPT ![w] = "got"]
    /\ UNCHANGED <<now, redis, nextChallenge, cresult,
                   lastStored, deliveries, outsideCeremony>>

ConsumeGetMissTellsExpired(w, token) ==
    /\ cpc[w] = "idle"
    /\ RedisGet(redis, RegKey(token)) = None
    /\ ConsumeBegin(w, RegKey(token))
    /\ cresult' = [cresult EXCEPT ![w] =
                      IF redis[RegKey(token)] # None
                      THEN Some(Err("BadRequest", "Expired state"))
                      ELSE Some(Err("Unauthorized",
                                    "Invalid or expired state"))]
    /\ cpc' = [cpc EXCEPT ![w] = "done"]
    /\ UNCHANGED <<now, redis, nextChallenge, nonce,
                   lastStored, deliveries, outsideCeremony>>

(* lines 42 and 55-57: GET finds nothing (never stored, consumed, expired). *)
ConsumeGetMiss(w, token) ==
    /\ cpc[w] = "idle"
    /\ RedisGet(redis, RegKey(token)) = None
    /\ ConsumeBegin(w, RegKey(token))
    /\ cresult' = [cresult EXCEPT ![w] =
                      Some(Err("Unauthorized", "Invalid or expired state"))]
    /\ cpc' = [cpc EXCEPT ![w] = "done"]
    /\ UNCHANGED <<now, redis, nextChallenge, nonce,
                   lastStored, deliveries, outsideCeremony>>

(* lines 40 and 42: the connection or the GET fails. *)
ConsumeGetFails(w, token) ==
    /\ cpc[w] = "idle"
    /\ ConsumeBegin(w, RegKey(token))
    /\ cresult' = [cresult EXCEPT ![w] = Some(Err("Redis", "unreachable"))]
    /\ cpc' = [cpc EXCEPT ![w] = "done"]
    /\ UNCHANGED <<now, redis, nextChallenge, nonce,
                   lastStored, deliveries, outsideCeremony>>

(* lines 45-53: DEL of the key, then the value read earlier is parsed
   and returned. *)
ConsumeDel(w) ==
    /\ cpc[w] = "got"
    /\ redis' = RedisDel(redis, Unwrap(ckey[w]))
    /\ LET parsed == from_str(Unwrap(nonce[w]))
       IN /\ cresult' = [cresult EXCEPT ![w] = Some(parsed)]
          /\ deliveries' =
                IF IsOk(parsed)
                THEN [deliveries EXCEPT ![parsed[2][1][2]] = @ + 1]
                ELSE deliveries
    /\ cpc' = [cpc EXCEPT ![w] = "done"]
    /\ UNCHANGED <<now, nextChallenge, ckey, nonce, lastStored, startConsumed,
                   startExpired, outsideCeremony>>

(* line 46: the DEL fails; the error is returned and the record stays. *)
ConsumeDelFails(w) ==
    /\ cpc[w] = "got"
    /\ cresult' = [cresult EXCEPT ![w] = Some(Err("Redis", "unreachable"))]
    /\ cpc' = [cpc EXCEPT ![w] = "done"]
    /\ UNCHANGED <<now, redis, nextChallenge, ckey, nonce, lastStored,
                   deliveries, startConsumed, startExpired, outsideCeremony>>

CeremonyTick ==
    /\ now + CeremonyTickSeconds <= MaxCeremonyTicks * CeremonyTickSeconds
    /\ now' = now + CeremonyTickSeconds
    /\ UNCHANGED <<ceremonyVars, outsideCeremony>>

----------------------------------------------------------------------------
(* Session manager: table sessions *)

DEFAULT_SESSION_DURATION_HOURS == 24

Hours(h) == h * 3600

SessionTickSeconds == Hours(DEFAULT_SESSION_DURATION_HOURS) \div 2

AuthProviders == {"azure_ad", "passkey", "password"}

SessionIds == 1..MaxTokens

(* Tokens a request may present: any token the generator can produce, and
   any digest the store holds for one. *)
PresentedTokens == Tokens \cup { hash_token(t) : t \in Tokens }

IdentityById(id) == { i \in identities : i.id = id }

(* ExternalIdentity::find_by_id *)
find_identity_by_id(id) ==
    IF IdentityById(id) = {} THEN None
    ELSE Some(CHOOSE i \in IdentityById(id) : TRUE)

(* The row Session::create inserts for the n-th call. *)
NewSessionRowRawToken(n, user_id, identity, provider) ==
    [id |-> n,
     user_id |-> user_id,
     external_identity_id |-> identity,
     provider |-> provider,
     token_hash |-> generate_session_token(n),
     expires_at |-> now + Hours(DEFAULT_SESSION_DURATION_HOURS),
     created_at |-> now]

NewSessionRow(n, user_id, identity, provider) ==
    [id |-> n,
     user_id |-> user_id,
     external_identity_id |-> identity,
     provider |-> provider,
     token_hash |-> hash_token(generate_session_token(n)),
     expires_at |-> now + Hours(DEFAULT_SESSION_DURATION_HOURS),
     created_at |-> now]

(* Session::create: INSERT of a row holding the digest of a fresh token;
   returns (session, raw token). *)
InsertSession(user_id, identity, provider) ==
    /\ sessionsCreated < MaxTokens
    /\ LET n == sessionsCreated + 1
           row == NewSessionRow(n, user_id, identity, provider)
       IN /\ sessions' = sessions \cup {row}
          /\ sessionsCreated' = n
          /\ issued' = issued \cup {[token |-> generate_session_token(n),
                                      id |-> row.id,
                                      user_id |-> row.user_id]}
          /\ sessionExpiry' = [sessionExpiry EXCEPT ![n] = row.expires_at]

SessionCreate(user_id, identity, provider) ==
    /\ InsertSession(user_id, identity, provider)
    /\ UNCHANGED <<now, outsideSession, invalidated>>

ValidRowsNoExpiry(token) ==
    { s \in sessions : s.token_hash = hash_token(token) }

ValidRowsInclusive(token) ==
    { s \in sessions : s.token_hash = hash_token(token)
                        /\ s.expires_at >= now }

(* The rows selected by find_valid's query:
   WHERE token_hash = $1 AND expires_at > NOW() *)
ValidRows(token) ==
    { s \in sessions : s.token_hash = hash_token(token)
                        /\ s.expires_at > now }

(* Session::find_valid: Option<(Session, Option<ExternalIdentity>)> *)
find_valid(token) ==
    IF ValidRows(token) = {} THEN None
    ELSE LET s == CHOOSE r \in ValidRows(token) : TRUE
         IN Some([session |-> s,
                  identity |-> IF s.external_identity_id # None
                               THEN find_identity_by_id(
                                        Unwrap(s.external_identity_id))
                               ELSE None])

IssuedTokens == { i.token : i \in issued }

SessionInvalidateOwner(token) ==
    /\ sessions' = { s \in sessions :
                       \A r \in sessions :
                           r.token_hash = hash_token(token) =>
                               s.user_id # r.user_id }
    /\ invalidated' = invalidated \cup ({token} \cap IssuedTokens)
    /\ UNCHANGED <<now, outsideSession, sessionsCreated, issued,
                   sessionExpiry>>

(* Session::invalidate: DELETE FROM sessions WHERE token_hash = $1 *)
SessionInvalidate(token) ==
    /\ sessions' = { s \in sessions : s.token_hash # hash_token(token) }
    /\ invalidated' = invalidated \cup ({token} \cap IssuedTokens)
    /\ UNCHANGED <<now, outsideSession, sessionsCreated, issued,
                   sessionExpiry>>

SessionInvalidateEveryUser(user_id) ==
    /\ sessions' = {}
    /\ invalidated' = invalidated \cup
                          { i.token : i \in { j \in issued :
                                                 j.user_id = user_id } }
    /\ UNCHANGED <<now, outsideSession, sessionsCreated, issued,
                   sessionExpiry>>

(* Session::invalidate_all_for_user: DELETE FROM sessions WHERE user_id = $1 *)
SessionInvalidateAllForUser(user_id) ==
    /\ sessions' = { s \in sessions : s.user_id # user_id }
    /\ invalidated' = invalidated \cup
                          { i.token : i \in { j \in issued :
                                                 j.user_id = user_id } }
    /\ UNCHANGED <<now, outsideSession, sessionsCreated, issued,
                   sessionExpiry>>

SessionCleanupExpiredStrict ==
    /\ sessions' = { s \in sessions : ~(s.expires_at < now) }
    /\ UNCHANGED <<now, outsideSession, sessionsCreated, issued,
                   invalidated, sessionExpiry>>

(* Session::cleanup_expired: DELETE FROM sessions WHERE expires_at <= NOW() *)
SessionCleanupExpired ==
    /\ sessions' = { s \in sessions : ~(s.expires_at <= now) }
    /\ UNCHANGED <<now, outsideSession, sessionsCreated, issued,
                   invalidated, sessionExpiry>>

SessionExtendEvery(id) ==
    /\ id <= sessionsCreated
    /\ LET new_expires_at == now + Hours(DEFAULT_SESSION_DURATION_HOURS)
       IN IF \E s \in sessions : s.id = id
          THEN /\ sessions' = { [s EXCEPT !.expires_at = new_expires_at] :
                                  s \in sessions }
               /\ sessionExpiry' =
                      [i \in SessionIds |->
                          IF \E s \in sessions : s.id = i
                          THEN new_expires_at ELSE sessionExpiry[i]]
          ELSE UNCHANGED <<sessions, sessionExpiry>>
    /\ UNCHANGED <<now, outsideSession, sessionsCreated, issued,
                   invalidated>>

(* Session::extend on a Session value obtained earlier:
   UPDATE sessions SET expires_at = now + 24h WHERE id = $1; a missing row
   is an error and changes nothing. *)
SessionExtend(id) ==
    /\ id <= sessionsCreated
    /\ LET new_expires_at == now + Hours(DEFAULT_SESSION_DURATION_HOURS)
       IN IF \E s \in sessions : s.id = id
          THEN /\ sessions' = { IF s.id = id
                                THEN [s EXCEPT !.expires_at = new_expires_at]
                                ELSE s : s \in sessions }
               /\ sessionExpiry' =
                      [sessionExpiry EXCEPT ![id] = new_expires_at]
          ELSE UNCHANGED <<sessions, sessionExpiry>>
    /\ UNCHANGED <<now, outsideSession, sessionsCreated, issued,
                   invalidated>>

SessionTick ==
    /\ now + SessionTickSeconds <= MaxSessionTicks * SessionTickSeconds
    /\ now' = now + SessionTickSeconds
    /\ UNCHANGED <<sessionVars, outsideSession>>

----------------------------------------------------------------------------
(* Errors and their HTTP status (error.rs) *)

UniqueViolation == Err("Database", "23505")

into_response_status_conflict_as_500(e) ==
    CASE e[2] = "NotFound" -> 404
      [] e[2] = "BadRequest" -> 400
      [] e[2] = "Unauthorized" -> 401
      [] e[2] = "Database" ->
             (CASE e[3] = "RowNotFound" -> 404
                [] e[3] = "23503" -> 400
                [] e[3] = "23502" -> 400
                [] OTHER -> 500)
      [] e[2] = "Internal" -> 500

(* AppError::into_response: the status code of the response. *)
into_response_status(e) ==
    CASE e[2] = "NotFound" -> 404
      [] e[2] = "BadRequest" -> 400
      [] e[2] = "Unauthorized" -> 401
      [] e[2] = "Database" ->
             (CASE e[3] = "RowNotFound" -> 404
                [] e[3] = "23505" -> 409
                [] e[3] = "23503" -> 400
                [] e[3] = "23502" -> 400
                [] OTHER -> 500)
      [] e[2] = "Internal" -> 500

----------------------------------------------------------------------------
(* Identity resolver: tables users and external_identities *)

(* The requests the calls are made with: two (provider, subject) pairs, and
   no email, an email with a display name, or an email without one. *)
IdentityKeys == { <<"passkey", "sub-1">>, <<"password", "sub-2">> }

EmailAndName == { <<None, None>>,
                  <<Some("a@x.com"), Some("Ann")>>,
                  <<Some("b@x.com"), None>> }

ResolveArgs ==
    { [provider |-> k[1], subject |-> k[2], email |-> en[1], name |-> en[2]] :
        k \in IdentityKeys, en \in EmailAndName }

(* Unique keys of the schema: users(email) and
   external_identities(provider, subject). *)
UsersEmailTaken(email) == \E u \in users : u.email = email

IdentityKeyTaken(provider, subject) ==
    \E i \in identities : i.provider = provider /\ i.subject = subject

(* Uuid::new_v4 and the serial default: an id no row has had. *)
FreshUserId == usersCreated + 1
FreshIdentityId == Cardinality(identities) + 1

OptionOf(S) == IF S = {} THEN None ELSE Some(CHOOSE x \in S : TRUE)

(* User::find_by_id, User::find_by_email *)
find_user_by_id(id) == OptionOf({ u \in users : u.id = id })
find_by_email(email) == OptionOf({ u \in users : u.email = email })

(* ExternalIdentity::find_by_provider_subject *)
find_by_provider_subject(provider, subject) ==
    OptionOf({ i \in identities :
                 i.provider = provider /\ i.subject = subject })

(* The row User::create inserts: name falls back to the email. *)
NewUserRow(email, name) ==
    [id |-> FreshUserId,
     email |-> email,
     name |-> IF name # None THEN Unwrap(name) ELSE email]

NewIdentityRowOrphan(user_id, provider, subject, email) ==
    [id |-> FreshIdentityId, user_id |-> 0, provider |-> provider,
     subject |-> subject, email |-> email]

(* The row ExternalIdentity::create inserts. *)
NewIdentityRow(user_id, provider, subject, email) ==
    [id |-> FreshIdentityId, user_id |-> user_id, provider |-> provider,
     subject |-> subject, email |-> email]

ResolveBegin(c, args) ==
    /\ rpc[c] = "idle"
    /\ IF c = 1 THEN TRUE ELSE rpc[c - 1] # "idle"
    /\ Cardinality({ d \in ResolveCalls : rpc[d] \notin {"idle", "done"} })
           < NumWorkers
    /\ rargs' = [rargs EXCEPT ![c] = Some(args)]
    /\ rprior' = [rprior EXCEPT ![c] =
                     { d \in ResolveCalls : rpc[d] = "done" }]
    /\ rexisting' = [rexisting EXCEPT ![c] =
                        find_by_provider_subject(args.provider, args.subject)]

ResolveLookupHitIgnored(c, args) ==
    /\ ResolveBegin(c, args)
    /\ find_by_provider_subject(args.provider, args.subject) # None
    /\ args.email # None
    /\ rpc' = [rpc EXCEPT ![c] = "miss"]
    /\ UNCHANGED <<now, outsideResolve, users, usersCreated,
                   identities, rident, ruser,
                   rresult, rnewUser, rnewIdentity, rlostRace>>

(* lines 131-134: the identity exists. *)
ResolveLookupHit(c, args) ==
    /\ ResolveBegin(c, args)
    /\ find_by_provider_subject(args.provider, args.subject) # None
    /\ rident' = [rident EXCEPT ![c] =
                     find_by_provider_subject(args.provider, args.subject)]
    /\ rpc' = [rpc EXCEPT ![c] = "found"]
    /\ UNCHANGED <<now, outsideResolve, users, usersCreated,
                   identities, ruser, rresult,
                   rnewUser, rnewIdentity, rlostRace>>

ResolveLoadOwnerByEmail(c) ==
    /\ rpc[c] = "found"
    /\ LET a == Unwrap(rargs[c])
           owner == IF a.email # None /\ find_by_email(Unwrap(a.email)) # None
                    THEN find_by_email(Unwrap(a.email))
                    ELSE find_user_by_id(Unwrap(rident[c]).user_id)
       IN rresult' = [rresult EXCEPT ![c] = Some(Ok(Unwrap(owner)))]
    /\ rpc' = [rpc EXCEPT ![c] = "done"]
    /\ UNCHANGED <<now, outsideResolve, users, usersCreated,
                   identities, rargs, rident,
                   ruser, rprior, rexisting, rnewUser, rnewIdentity,
                   rlostRace>>

(* lines 135-140: load the owner of the identity and return it. *)
ResolveLoadOwner(c) ==
    /\ rpc[c] = "found"
    /\ LET owner == find_user_by_id(Unwrap(rident[c]).user_id)
       IN rresult' = [rresult EXCEPT ![c] = Some(
              IF owner # None THEN Ok(Unwrap(owner))
              ELSE Err("Internal",
                       "External Identity found but cascaded User not found"))]
    /\ rpc' = [rpc EXCEPT ![c] = "done"]
    /\ UNCHANGED <<now, outsideResolve, users, usersCreated,
                   identities, rargs, rident,
                   ruser, rprior, rexisting, rnewUser, rnewIdentity, rlostRace>>

(* lines 131-144: no identity, an email is supplied. *)
ResolveLookupMiss(c, args) ==
    /\ ResolveBegin(c, args)
    /\ find_by_provider_subject(args.provider, args.subject) = None
    /\ args.email # None
    /\ rpc' = [rpc EXCEPT ![c] = "miss"]
    /\ UNCHANGED <<now, outsideResolve, users, usersCreated,
                   identities, rident, ruser,
                   rresult, rnewUser, rnewIdentity, rlostRace>>

ResolveLookupMissNoEmailCreates(c, args) ==
    /\ ResolveBegin(c, args)
    /\ find_by_provider_subject(args.provider, args.subject) = None
    /\ args.email = None
    /\ users' = users \cup {NewUserRow(args.subject, args.name)}
    /\ ruser' = [ruser EXCEPT ![c] = Some(NewUserRow(args.subject, args.name))]
    /\ usersCreated' = usersCreated + 1
    /\ rnewUser' = [rnewUser EXCEPT ![c] = TRUE]
    /\ rpc' = [rpc EXCEPT ![c] = "link"]
    /\ UNCHANGED <<now, outsideResolve, identities, rident, rresult,
                   rnewIdentity, rlostRace>>

(* lines 131-134 and 157-161: no identity and no email. *)
ResolveLookupMissNoEmail(c, args) ==
    /\ ResolveBegin(c, args)
    /\ find_by_provider_subject(args.provider, args.subject) = None
    /\ args.email = None
    /\ rresult' = [rresult EXCEPT ![c] =
                      Some(Err("Unauthorized", "Azure identity missing email"))]
    /\ rpc' = [rpc EXCEPT ![c] = "done"]
    /\ UNCHANGED <<now, outsideResolve, users, usersCreated,
                   identities, rident, ruser,
                   rnewUser, rnewIdentity, rlostRace>>

ResolveFindByEmailSkipped(c) ==
    /\ rpc[c] = "miss"
    /\ rpc' = [rpc EXCEPT ![c] = "create"]
    /\ UNCHANGED <<now, outsideResolve, users, usersCreated,
                   identities, rargs, rident,
                   ruser, rresult, rprior, rexisting, rnewUser, rnewIdentity,
                   rlostRace>>

(* line 145: User::find_by_email *)
ResolveFindByEmail(c) ==
    /\ rpc[c] = "miss"
    /\ LET found == find_by_email(Unwrap(Unwrap(rargs[c]).email))
       IN /\ ruser' = [ruser EXCEPT ![c] = found]
          /\ rpc' = [rpc EXCEPT ![c] =
                        IF found # None THEN "link" ELSE "create"]
    /\ UNCHANGED <<now, outsideResolve, users, usersCreated,
                   identities, rargs, rident,
                   rresult, rprior, rexisting, rnewUser, rnewIdentity,
                   rlostRace>>

(* lines 148-155: User::create inserts the user. *)
ResolveCreateUser(c) ==
    /\ rpc[c] = "create"
    /\ LET a == Unwrap(rargs[c])
           row == NewUserRow(Unwrap(a.email), a.name)
       IN /\ ~UsersEmailTaken(row.email)
          /\ users' = users \cup {row}
          /\ ruser' = [ruser EXCEPT ![c] = Some(row)]
    /\ usersCreated' = usersCreated + 1
    /\ rnewUser' = [rnewUser EXCEPT ![c] = TRUE]
    /\ rpc' = [rpc EXCEPT ![c] = "link"]
    /\ UNCHANGED <<now, outsideResolve, identities, rargs, rident, rresult,
                   rprior, rexisting, rnewIdentity, rlostRace>>

(* lines 148-155: User::create fails on the unique email; `?` returns the
   database error. *)
ResolveCreateUserConflict(c) ==
    /\ rpc[c] = "create"
    /\ UsersEmailTaken(Unwrap(Unwrap(rargs[c]).email))
    /\ rresult' = [rresult EXCEPT ![c] = Some(UniqueViolation)]
    /\ rlostRace' = [rlostRace EXCEPT ![c] = TRUE]
    /\ rpc' = [rpc EXCEPT ![c] = "done"]
    /\ UNCHANGED <<now, outsideResolve, users, usersCreated,
                   identities, rargs, rident,
                   ruser, rprior, rexisting, rnewUser, rnewIdentity>>

(* lines 164-167: ExternalIdentity::create inserts the link; the user is
   returned. *)
ResolveCreateIdentity(c) ==
    /\ rpc[c] = "link"
    /\ LET a == Unwrap(rargs[c])
           user == Unwrap(ruser[c])
       IN /\ ~IdentityKeyTaken(a.provider, a.subject)
          /\ identities' = identities \cup
                {NewIdentityRow(user.id, a.provider, a.subject, a.email)}
          /\ rresult' = [rresult EXCEPT ![c] = Some(Ok(user))]
    /\ rnewIdentity' = [rnewIdentity EXCEPT ![c] = TRUE]
    /\ rpc' = [rpc EXCEPT ![c] = "done"]
    /\ UNCHANGED <<now, outsideResolve, users, usersCreated, rargs, rident,
                   ruser, rprior,
                   rexisting, rnewUser, rlostRace>>

(* lines 164-165: ExternalIdentity::create fails on the unique
   (provider, subject); `?` returns the database error. *)
ResolveCreateIdentityConflict(c) ==
    /\ rpc[c] = "link"
    /\ IdentityKeyTaken(Unwrap(rargs[c]).provider, Unwrap(rargs[c]).subject)
    /\ rresult' = [rresult EXCEPT ![c] = Some(UniqueViolation)]
    /\ rpc' = [rpc EXCEPT ![c] = "done"]
    /\ UNCHANGED <<now, outsideResolve, users, usersCreated,
                   identities, rargs, rident,
                   ruser, rprior, rexisting, rnewUser, rnewIdentity, rlostRace>>

----------------------------------------------------------------------------
(* Auth guard: the extractors SessionToken, AuthContext, OptionalAuth,
   AzureUser and PasskeyUser *)

(* The request that is followed through the guard. Every extractor is
   applied to it: the four results are those of four requests that carry
   the same cookie and run their queries at the same instants. *)
Requests == {"request"}

(* What a request carries in its "session" cookie. *)
Cookies == {None} \cup { Some(t) : t \in Tokens }

(* A query that fails because the database cannot be reached. *)
DatabaseUnreachable == Err("Database", "PoolTimedOut")

(* AuthContext::require_provider *)
require_provider_any(ctx, provider) == Ok(<<>>)

require_provider(ctx, provider) ==
    IF ctx.session.provider = provider
    THEN Ok(<<>>)
    ELSE Err("Forbidden", <<"Invalid auth provider: ", provider>>)

(* Session::is_expired *)
is_expired(session) == session.expires_at < now

(* OptionalAuth::from_request_parts on the result of the AuthContext
   extractor. *)
OptionalAuth(ctx) == IF IsOk(ctx) THEN Ok(Some(ctx[2])) ELSE Ok(None)

(* AzureUser / PasskeyUser::from_request_parts: `?` on the context, then
   `?` on require_provider. *)
ProviderUser(ctx, provider) ==
    IF ~IsOk(ctx) THEN ctx
    ELSE IF ~IsOk(require_provider(ctx[2], provider))
         THEN require_provider(ctx[2], provider)
         ELSE ctx

AzureUser(ctx) == ProviderUser(ctx, "azure_ad")
PasskeyUser(ctx) == ProviderUser(ctx, "passkey")

Extract(ctx) ==
    [AuthContext |-> ctx,
     OptionalAuth |-> OptionalAuth(ctx),
     AzureUser |-> AzureUser(ctx),
     PasskeyUser |-> PasskeyUser(ctx)]

GuardReturn(r, ctx) ==
    /\ gctx' = [gctx EXCEPT ![r] = Some(ctx)]
    /\ gresult' = [gresult EXCEPT ![r] = Some(Extract(ctx))]
    /\ gpc' = [gpc EXCEPT ![r] = "done"]

(* SessionToken::from_request_parts, then the first query of
   AuthContext::from_request_parts: Session::find_valid. *)
GuardFindValid(r, cookie, up) ==
    /\ gpc[r] = "idle"
    /\ greq' = [greq EXCEPT ![r] = Some(cookie)]
    /\ IF cookie = None
       THEN /\ GuardReturn(r,
                           Err("Unauthorized", "Missing session cookie"))
            /\ UNCHANGED gfound
       ELSE IF ~up
       THEN /\ GuardReturn(r, DatabaseUnreachable)
            /\ UNCHANGED gfound
       ELSE IF find_valid(Unwrap(cookie)) = None
       THEN /\ GuardReturn(r,
                           Err("Unauthorized", "Invalid or expired session"))
            /\ UNCHANGED gfound
       ELSE /\ gfound' = [gfound EXCEPT ![r] = find_valid(Unwrap(cookie))]
            /\ gpc' = [gpc EXCEPT ![r] = "found"]
            /\ UNCHANGED <<gctx, gresult>>
    /\ UNCHANGED <<now, outsideGuard>>

AuthContextAnonymous(r, up) ==
    LET found == Unwrap(gfound[r])
        user == find_user_by_id(found.session.user_id)
    IN IF is_expired(found.session)
       THEN Err("Unauthorized", "Session expired")
       ELSE IF ~up THEN DatabaseUnreachable
       ELSE Ok([session |-> found.session,
                user |-> IF user = None
                         THEN [id |-> 0, email |-> "", name |-> ""]
                         ELSE Unwrap(user),
                identity |-> found.identity])

(* The rest of AuthContext::from_request_parts: is_expired, then
   User::find_by_id. *)
AuthContext(r, up) ==
    LET found == Unwrap(gfound[r])
        user == find_user_by_id(found.session.user_id)
    IN IF is_expired(found.session)
       THEN Err("Unauthorized", "Session expired")
       ELSE IF ~up THEN DatabaseUnreachable
       ELSE IF user = None THEN Err("Unauthorized", "User not found")
       ELSE Ok([session |-> found.session,
                user |-> Unwrap(user),
                identity |-> found.identity])

GuardLoadUser(r, up) ==
    /\ gpc[r] = "found"
    /\ GuardReturn(r, AuthContext(r, up))
    /\ UNCHANGED <<now, outsideGuard, greq, gfound>>

(* User::create as signup calls it. *)
UserCreate(email, name) ==
    /\ FreshUserId \in UserIds
    /\ ~UsersEmailTaken(email)
    /\ users' = users \cup {NewUserRow(email, name)}
    /\ usersCreated' = usersCreated + 1
    /\ UNCHANGED <<now, ceremonyVars, sessionVars, sessionCallVars,
                   guardVars, restVars, identities, rpc, rargs, rident, ruser,
                   rresult, rprior, rexisting, rnewUser, rnewIdentity,
                   rlostRace>>

(* User::delete: DELETE FROM users WHERE id = $1, the rows that refer to
   the user being left behind ... *)
UserDelete(id) ==
    /\ \E u \in users : u.id = id
    /\ users' = { u \in users : u.id # id }
    /\ UNCHANGED <<now, ceremonyVars, sessionVars, sessionCallVars,
                   guardVars, restVars, usersCreated, identities, rpc, rargs, rident,
                   ruser, rresult, rprior, rexisting, rnewUser,
                   rnewIdentity, rlostRace>>

(* ... or deleted with it, as the foreign keys of the schema decide. *)
UserDeleteCascade(id) ==
    /\ \E u \in users : u.id = id
    /\ users' = { u \in users : u.id # id }
    /\ sessions' = { s \in sessions : s.user_id # id }
    /\ identities' = { i \in identities : i.user_id # id }
    /\ UNCHANGED <<now, ceremonyVars, sessionCallVars, guardVars, restVars,
                   sessionsCreated, issued, invalidated, sessionExpiry,
                   usersCreated, rpc, rargs, rident, ruser, rresult, rprior,
                   rexisting, rnewUser, rnewIdentity, rlostRace>>

----------------------------------------------------------------------------
(* Password records: table passwords, bcrypt *)

(* bcrypt::hash draws a fresh salt; bcrypt::verify recomputes with the
   salt of the stored hash. *)
hash(password, salt) == <<"bcrypt", salt, password>>
verify(password, password_hash) ==
    password_hash = hash(password, password_hash[2])

(* Password::find_by_user_id *)
find_by_user_id(user_id) ==
    OptionOf({ p \in passwords : p.user_id = user_id })

(* The row Password::create inserts. *)
NewPasswordRow(user_id, password) ==
    [id |-> hashesMade + 1,
     user_id |-> user_id,
     password_hash |-> hash(password, hashesMade + 1)]

(* Unique key of the schema: passwords(user_id). *)
PasswordUserTaken(user_id) == \E p \in passwords : p.user_id = user_id

PasswordInputs == {"password-1", "password-2"}

outsidePasswords == <<now, ceremonyVars, sessionVars, sessionCallVars,
                      resolveVars, guardVars, handlerVars, credentialVars,
                      metricsVars, extraVars>>

PasswordCalled(op, user_id, password, result) ==
    pwLastCall' = Some([op |-> op, user_id |-> user_id,
                        password |-> password,
                        before |-> find_by_user_id(user_id),
                        result |-> result])

(* Password::create: hash, then INSERT INTO passwords *)
PasswordCreate(user_id, password) ==
    /\ hashesMade < MaxHashes
    /\ hashesMade' = hashesMade + 1
    /\ IF PasswordUserTaken(user_id)
       THEN /\ PasswordCalled("create", user_id, password, UniqueViolation)
            /\ UNCHANGED passwords
       ELSE /\ passwords' = passwords \cup {NewPasswordRow(user_id, password)}
            /\ PasswordCalled("create", user_id, password,
                              Ok(NewPasswordRow(user_id, password)))
    /\ UNCHANGED outsidePasswords

(* Password::update: hash, then UPDATE passwords SET password_hash = $2
   WHERE user_id = $1 RETURNING ..; fetch_one on no row is RowNotFound. *)
PasswordUpdate(user_id, new_password) ==
    /\ hashesMade < MaxHashes
    /\ hashesMade' = hashesMade + 1
    /\ LET password_hash == hash(new_password, hashesMade + 1)
       IN /\ passwords' = { IF p.user_id = user_id
                            THEN [p EXCEPT !.password_hash = password_hash]
                            ELSE p : p \in passwords }
          /\ PasswordCalled("update", user_id, new_password,
                IF find_by_user_id(user_id) = None
                THEN Err("Database", "RowNotFound")
                ELSE Ok([Unwrap(find_by_user_id(user_id))
                            EXCEPT !.password_hash = password_hash]))
    /\ UNCHANGED outsidePasswords

(* Password::delete: DELETE FROM passwords WHERE user_id = $1 *)
PasswordDelete(user_id) ==
    /\ passwords' = { p \in passwords : p.user_id # user_id }
    /\ PasswordCalled("delete", user_id, "", Ok(<<>>))
    /\ UNCHANGED <<hashesMade, outsidePasswords>>

----------------------------------------------------------------------------
(* Handlers: password_signup, password_login (auth/password.rs) and
   passkey_register_start (auth/passkey.rs).  One step per await; each
   query either runs (up) or fails because its store cannot be reached. *)

resolveRest == <<identities, rpc, rargs, rident, ruser, rresult, rprior,
                 rexisting, rnewUser, rnewIdentity, rlostRace>>
ceremonyRest == <<cpc, ckey, nonce, cresult, deliveries, startConsumed,
                  startExpired>>
outsideHandlers == <<now, sessionCallVars, guardVars, resolveRest,
                     ceremonyRest, invalidated, credentialVars, metricsVars,
                     extraVars>>
usersTable == <<users, usersCreated>>
sessionsTable == <<sessions, sessionsCreated, issued, sessionExpiry>>
regStore == <<redis, nextChallenge, lastStored>>

SignupArgs ==
    { [handler |-> "password_signup", email |-> "a@x.com", name |-> "Ann",
       password |-> p, cookie |-> None] : p \in {"password-1", "short"} }

LoginArgs ==
    { [handler |-> "password_login", email |-> e, name |-> "",
       password |-> p, cookie |-> None] :
        e \in {"a@x.com", "b@x.com"}, p \in {"password-1", "password-2", ""} }

RegisterStartArgs ==
    { [handler |-> "passkey_register_start", email |-> "b@x.com",
       name |-> "Bob", password |-> "", cookie |-> k] : k \in Cookies }

HandlerBegin(c, args) ==
    /\ hpc[c] = "idle"
    /\ IF c = 1 THEN TRUE ELSE hpc[c - 1] # "idle"
    /\ Cardinality({ d \in HandlerSlots : hpc[d] \notin {"idle", "done"} })
           < NumWorkers
    /\ hargs' = [hargs EXCEPT ![c] = Some(args)]

HandlerReturn(c, r) ==
    /\ hresult' = [hresult EXCEPT ![c] = Some(r)]
    /\ hpc' = [hpc EXCEPT ![c] = "done"]

HandlerGoto(c, label) ==
    /\ hpc' = [hpc EXCEPT ![c] = label]
    /\ UNCHANGED hresult

InvalidLogin == Err("Unauthorized", "Invalid email or password")

(* password_login, lines 116-127: validation, then User::find_by_email. *)
LoginFindByEmail(c, args, up) ==
    /\ HandlerBegin(c, args)
    /\ IF args.email = "" \/ args.password = ""
       THEN /\ HandlerReturn(c, Err("BadRequest",
                                    "Email and password are required"))
            /\ UNCHANGED huser
       ELSE IF ~up
       THEN HandlerReturn(c, DatabaseUnreachable) /\ UNCHANGED huser
       ELSE IF find_by_email(args.email) = None
       THEN HandlerReturn(c, InvalidLogin) /\ UNCHANGED huser
       ELSE /\ huser' = [huser EXCEPT ![c] = find_by_email(args.email)]
            /\ HandlerGoto(c, "login_password")
    /\ UNCHANGED <<outsideHandlers, usersTable, sessionsTable, regStore,
                   passwordVars, hsession, hcookie, hlookupFailed, hverified,
                   hnewUser, sessionOrigin>>

LoginVerifyTellsNoPassword(c, up) ==
    /\ hpc[c] = "login_password"
    /\ LET password == find_by_user_id(Unwrap(huser[c]).id)
       IN IF ~up
          THEN HandlerReturn(c, DatabaseUnreachable) /\ UNCHANGED hverified
          ELSE IF password = None
          THEN /\ HandlerReturn(c, Err("Unauthorized", "No password set"))
               /\ UNCHANGED hverified
          ELSE IF ~verify(Unwrap(hargs[c]).password,
                          Unwrap(password).password_hash)
          THEN HandlerReturn(c, InvalidLogin) /\ UNCHANGED hverified
          ELSE /\ hverified' = [hverified EXCEPT ![c] = TRUE]
               /\ HandlerGoto(c, "login_session")
    /\ UNCHANGED <<outsideHandlers, usersTable, sessionsTable, regStore,
                   passwordVars, hargs, huser, hsession, hcookie,
                   hlookupFailed, hnewUser, sessionOrigin>>

(* lines 130-141: Password::find_by_user_id, then verify. *)
LoginVerify(c, up) ==
    /\ hpc[c] = "login_password"
    /\ LET password == find_by_user_id(Unwrap(huser[c]).id)
       IN IF ~up
          THEN HandlerReturn(c, DatabaseUnreachable) /\ UNCHANGED hverified
          ELSE IF password = None
          THEN HandlerReturn(c, InvalidLogin) /\ UNCHANGED hverified
          ELSE IF ~verify(Unwrap(hargs[c]).password,
                          Unwrap(password).password_hash)
          THEN HandlerReturn(c, InvalidLogin) /\ UNCHANGED hverified
          ELSE /\ hverified' = [hverified EXCEPT ![c] = TRUE]
               /\ HandlerGoto(c, "login_session")
    /\ UNCHANGED <<outsideHandlers, usersTable, sessionsTable, regStore,
                   passwordVars, hargs, huser, hsession, hcookie,
                   hlookupFailed, hnewUser, sessionOrigin>>

(* The step of a handler that creates the session and sets the cookie. *)
HandlerCreateSession(c, user_id, provider) ==
    /\ InsertSession(user_id, None, provider)
    /\ hcookie' = [hcookie EXCEPT ![c] =
                      Some(generate_session_token(sessionsCreated + 1))]
    /\ sessionOrigin' = [sessionOrigin EXCEPT ![sessionsCreated + 1] =
                            Some(c)]

(* lines 143-168: Session::create, cookie, 200. *)
LoginCreateSession(c, up) ==
    /\ hpc[c] = "login_session"
    /\ IF ~up
       THEN /\ HandlerReturn(c, DatabaseUnreachable)
            /\ UNCHANGED <<sessionsTable, hcookie, sessionOrigin>>
       ELSE /\ HandlerCreateSession(c, Unwrap(huser[c]).id, "password")
            /\ HandlerReturn(c, Ok(<<200, Unwrap(huser[c])>>))
    /\ UNCHANGED <<outsideHandlers, usersTable, regStore, passwordVars,
                   hargs, huser, hsession, hlookupFailed, hverified,
                   hnewUser>>

(* password_signup, lines 34-58: validation, then User::find_by_email. *)
SignupFindByEmail(c, args, up) ==
    /\ HandlerBegin(c, args)
    /\ IF args.email = "" \/ args.name = "" \/ args.password = ""
       THEN HandlerReturn(c, Err("BadRequest",
                                 "Email, name, and password are required"))
       ELSE IF Len(args.password) < 8
       THEN HandlerReturn(c, Err("BadRequest",
                                 "Password must be at least 8 characters"))
       ELSE IF ~up THEN HandlerReturn(c, DatabaseUnreachable)
       ELSE IF find_by_email(args.email) # None
       THEN HandlerReturn(c, Err("BadRequest",
                                 "User with this email already exists"))
       ELSE HandlerGoto(c, "signup_user")
    /\ UNCHANGED <<outsideHandlers, usersTable, sessionsTable, regStore,
                   passwordVars, huser, hsession, hcookie, hlookupFailed,
                   hverified, hnewUser, sessionOrigin>>

(* User::create as a handler calls it: the insert, the unique violation
   on the email, or the database's failure. *)
HandlerCreateUser(c, up, next) ==
    LET a == Unwrap(hargs[c])
    IN IF ~up
       THEN /\ HandlerReturn(c, DatabaseUnreachable)
            /\ UNCHANGED <<usersTable, huser, hnewUser>>
       ELSE IF UsersEmailTaken(a.email)
       THEN /\ HandlerReturn(c, UniqueViolation)
            /\ UNCHANGED <<usersTable, huser, hnewUser>>
       ELSE /\ FreshUserId \in UserIds
            /\ users' = users \cup {NewUserRow(a.email, Some(a.name))}
            /\ usersCreated' = usersCreated + 1
            /\ huser' = [huser EXCEPT ![c] =
                            Some(NewUserRow(a.email, Some(a.name)))]
            /\ hnewUser' = [hnewUser EXCEPT ![c] = TRUE]
            /\ HandlerGoto(c, next)

(* lines 60-68 *)
SignupCreateUser(c, up) ==
    /\ hpc[c] = "signup_user"
    /\ HandlerCreateUser(c, up, "signup_password")
    /\ UNCHANGED <<outsideHandlers, sessionsTable, regStore, passwordVars,
                   hargs, hsession, hcookie, hlookupFailed, hverified,
                   sessionOrigin>>

(* lines 70-78: Password::create *)
SignupCreatePassword(c, up) ==
    /\ hpc[c] = "signup_password"
    /\ IF ~up
       THEN /\ HandlerReturn(c, DatabaseUnreachable)
            /\ hashesMade' = hashesMade + 1
            /\ UNCHANGED passwords
       ELSE /\ passwords' = passwords \cup
                   {NewPasswordRow(Unwrap(huser[c]).id,
                                   Unwrap(hargs[c]).password)}
            /\ hashesMade' = hashesMade + 1
            /\ HandlerGoto(c, "signup_session")
    /\ UNCHANGED pwLastCall
    /\ UNCHANGED <<outsideHandlers, usersTable, sessionsTable, regStore,
                   hargs, huser, hsession, hcookie, hlookupFailed, hverified,
                   hnewUser, sessionOrigin>>

(* lines 80-105: Session::create, cookie, 201. *)
SignupCreateSession(c, up) ==
    /\ hpc[c] = "signup_session"
    /\ IF ~up
       THEN /\ HandlerReturn(c, DatabaseUnreachable)
            /\ UNCHANGED <<sessionsTable, hcookie, sessionOrigin>>
       ELSE /\ HandlerCreateSession(c, Unwrap(huser[c]).id, "password")
            /\ HandlerReturn(c, Ok(<<201, Unwrap(huser[c])>>))
    /\ UNCHANGED <<outsideHandlers, usersTable, regStore, passwordVars,
                   hargs, huser, hsession, hlookupFailed, hverified,
                   hnewUser>>

(* passkey_register_start, lines 77-79 and 111-122: the cookie, then
   Session::find_valid(..).await.ok().flatten(). *)
RegisterStartFindValid(c, args, up) ==
    /\ HandlerBegin(c, args)
    /\ LET found == IF args.cookie = None \/ ~up THEN None
                    ELSE find_valid(Unwrap(args.cookie))
       IN IF found # None
          THEN /\ hsession' = [hsession EXCEPT ![c] =
                                  Some(<<Unwrap(found).session.user_id,
                                         Unwrap(args.cookie)>>)]
               /\ HandlerGoto(c, "start_store")
          ELSE /\ HandlerGoto(c, "start_user")
               /\ UNCHANGED hsession
    /\ hlookupFailed' = [hlookupFailed EXCEPT ![c] =
                            args.cookie # None /\ ~up]
    /\ UNCHANGED <<outsideHandlers, usersTable, sessionsTable, regStore,
                   passwordVars, huser, hcookie, hverified, hnewUser,
                   sessionOrigin>>

(* invalid_or_non_session, lines 83-90: User::create *)
RegisterStartCreateUser(c, up) ==
    /\ hpc[c] = "start_user"
    /\ HandlerCreateUser(c, up, "start_session")
    /\ UNCHANGED <<outsideHandlers, sessionsTable, regStore, passwordVars,
                   hargs, hsession, hcookie, hlookupFailed, hverified,
                   sessionOrigin>>

(* invalid_or_non_session, lines 92-108: Session::create, cookie *)
RegisterStartCreateSession(c, up) ==
    /\ hpc[c] = "start_session"
    /\ IF ~up
       THEN /\ HandlerReturn(c, DatabaseUnreachable)
            /\ UNCHANGED <<sessionsTable, hcookie, sessionOrigin, hsession>>
       ELSE /\ HandlerCreateSession(c, Unwrap(huser[c]).id, "passkey")
            /\ hsession' = [hsession EXCEPT ![c] =
                               Some(<<Unwrap(huser[c]).id,
                                      generate_session_token(
                                          sessionsCreated + 1)>>)]
            /\ HandlerGoto(c, "start_store")
    /\ UNCHANGED <<outsideHandlers, usersTable, regStore, passwordVars,
                   hargs, huser, hlookupFailed, hverified, hnewUser>>

(* lines 124-141: start_passkey_registration, then
   store_session_passkey_reg_uid. *)
RegisterStartStore(c, up) ==
    /\ hpc[c] = "start_store"
    /\ IF ~up
       THEN /\ HandlerReturn(c, Err("Redis", "unreachable"))
            /\ UNCHANGED regStore
       ELSE /\ SetExRegState(Unwrap(hsession[c])[2], Unwrap(hsession[c])[1])
            /\ HandlerReturn(c, Ok(PasskeyRegistration(nextChallenge)))
    /\ UNCHANGED <<outsideHandlers, usersTable, sessionsTable, passwordVars,
                   hargs, huser, hsession, hcookie, hlookupFailed, hverified,
                   hnewUser, sessionOrigin>>

----------------------------------------------------------------------------
(* Passkey credentials: table passkey_credentials (models/passkey.rs) *)

(* A u32 is written as its two 16-bit halves <<high, low>>, so that every
   value up to 2^32 - 1 can be written; an i32 is an integer. *)
U32(high, low) == <<high, low>>

(* The signature counters the calls are made with: 0, 1, 5, 2^31 - 1,
   2^31 and 2^32 - 1. *)
Counters == { U32(0, 0), U32(0, 1), U32(0, 5), U32(32767, 65535),
              U32(32768, 0), U32(65535, 65535) }

(* `counter as i32`: the same 32 bits read as a two's complement number *)
as_i32(c) ==
    IF c[1] >= 32768 THEN (c[1] - 65536) * 65536 + c[2]
    ELSE c[1] * 65536 + c[2]

(* An i32 and a u32 are the same number. *)
SameNumber(i, c) == c[1] < 32768 /\ i = c[1] * 65536 + c[2]

CredentialIds == {"cred-1", "cred-2"}

RowsWithCredentialId(credential_id) ==
    { k \in credentials : k.credential_id = credential_id }

(* PasskeyCredential::find_by_credential_id *)
find_by_credential_id(credential_id) ==
    OptionOf(RowsWithCredentialId(credential_id))

outsideCredentials == <<now, ceremonyVars, sessionVars, sessionCallVars,
                        resolveVars, guardVars, passwordVars, handlerVars,
                        metricsVars, extraVars>>

(* PasskeyCredential::create for a credential id the authenticator has
   newly made; the column counter takes its default, 0. *)
PasskeyCreate(user_id, credential_id) ==
    /\ RowsWithCredentialId(credential_id) = {}
    /\ LET row == [id |-> Cardinality(credentials) + 1,
                   user_id |-> user_id,
                   credential_id |-> credential_id,
                   public_key |-> <<"public-key", credential_id>>,
                   counter |-> 0]
       IN /\ credentials' = credentials \cup {row}
          /\ pkLastCall' = Some([op |-> "create",
                                 credential_id |-> credential_id,
                                 counter |-> U32(0, 0),
                                 before |-> None,
                                 result |-> Ok(row)])
    /\ UNCHANGED outsideCredentials

(* PasskeyCredential::update_counter:
   UPDATE passkey_credentials SET counter = $2 WHERE credential_id = $1 *)
update_counter(credential_id, counter) ==
    /\ credentials' =
           { IF k.credential_id = credential_id
             THEN [k EXCEPT !.counter = as_i32(counter)]
             ELSE k : k \in credentials }
    /\ pkLastCall' = Some([op |-> "update_counter",
                           credential_id |-> credential_id,
                           counter |-> counter,
                           before |-> find_by_credential_id(credential_id),
                           result |-> Ok(<<>>)])
    /\ UNCHANGED outsideCredentials

----------------------------------------------------------------------------
(* Metrics: the static mut counters of metrics.rs *)

(* REQUESTS_CREATED_COUNT, REQUESTS_UPDATED_COUNT and
   REQUESTS_DELETED_COUNT; the other statics are incremented by the same
   code. *)
MetricCounters == {"requests_created", "requests_updated", "requests_deleted"}

outsideMetrics == <<now, ceremonyVars, sessionVars, sessionCallVars,
                    resolveVars, guardVars, passwordVars, handlerVars,
                    credentialVars, extraVars>>

IncrementsStarted ==
    incremented["requests_created"] + incremented["requests_updated"]
        + incremented["requests_deleted"]
        + Cardinality({ w \in Workers : mpc[w] = "loaded" })

(* `COUNT += 1` on a static mut is a read of the static followed by a
   write of the sum, with no synchronisation between the threads that run
   it: the read ... *)
IncrementLoad(w, k) ==
    /\ mpc[w] = "idle"
    /\ IncrementsStarted < MaxIncrements
    /\ mreg' = [mreg EXCEPT ![w] = counts[k]]
    /\ mcounter' = [mcounter EXCEPT ![w] = Some(k)]
    /\ mpc' = [mpc EXCEPT ![w] = "loaded"]
    /\ UNCHANGED <<counts, incremented, outsideMetrics>>

(* ... and the write, after which the call returns. *)
IncrementStore(w) ==
    /\ mpc[w] = "loaded"
    /\ counts' = [counts EXCEPT ![Unwrap(mcounter[w])] = mreg[w] + 1]
    /\ incremented' = [incremented EXCEPT ![Unwrap(mcounter[w])] = @ + 1]
    /\ mcounter' = [mcounter EXCEPT ![w] = None]
    /\ mreg' = [mreg EXCEPT ![w] = 0]
    /\ mpc' = [mpc EXCEPT ![w] = "idle"]
    /\ UNCHANGED outsideMetrics

----------------------------------------------------------------------------
(* Enum values and their string forms (models/request.rs,
   models/audit_log.rs, models/external_identities.rs).
   A string is the sequence of its characters. *)

LowerLetters == <<"a", "b", "c", "d", "e", "f", "g", "h", "i", "j", "k", "l", "m", "n", "o", "p", "q", "r", "s", "t", "u", "v", "w", "x", "y", "z">>
UpperLetters == <<"A", "B", "C", "D", "E", "F", "G", "H", "I", "J", "K", "L", "M", "N", "O", "P", "Q", "R", "S", "T", "U", "V", "W", "X", "Y", "Z">>

LowerChar(ch) ==
    IF \E i \in DOMAIN UpperLetters : UpperLetters[i] = ch
    THEN LowerLetters[CHOOSE i \in DOMAIN UpperLetters : UpperLetters[i] = ch]
    ELSE ch

UpperChar(ch) ==
    IF \E i \in DOMAIN LowerLetters : LowerLetters[i] = ch
    THEN UpperLetters[CHOOSE i \in DOMAIN LowerLetters : LowerLetters[i] = ch]
    ELSE ch

(* str::to_lowercase, str::to_uppercase *)
to_lowercase(s) == [i \in 1..Len(s) |-> LowerChar(s[i])]
to_uppercase(s) == [i \in 1..Len(s) |-> UpperChar(s[i])]

Panic(msg, s) == <<"Panic", msg, s>>

EnumValues ==
    [RequestStatus |-> {"Open", "InProgress", "Resolved"},
     RequestCategory |-> {"IT", "Ops", "Admin", "HR"},
     RequestPriority |-> {"Low", "Medium", "High"},
     AuditAction |-> {"Created", "Updated", "Deleted", "StatusChanged"},
     AuthProvider |-> {"AzureAd", "Passkey", "Password"}]

(* impl Display for RequestStatus, RequestCategory, RequestPriority,
   AuditAction, AuthProvider *)
RequestStatus_to_string(v) ==
    CASE v = "Open" -> <<"o", "p", "e", "n">>
      [] v = "InProgress" -> <<"i", "n", "_", "p", "r", "o", "g", "r", "e", "s", "s">>
      [] v = "Resolved" -> <<"r", "e", "s", "o", "l", "v", "e", "d">>

RequestCategory_to_string(v) ==
    CASE v = "IT" -> <<"I", "T">>
      [] v = "Ops" -> <<"O", "p", "s">>
      [] v = "Admin" -> <<"A", "d", "m", "i", "n">>
      [] v = "HR" -> <<"H", "R">>

RequestPriority_to_string(v) ==
    CASE v = "Low" -> <<"l", "o", "w">>
      [] v = "Medium" -> <<"m", "e", "d", "i", "u", "m">>
      [] v = "High" -> <<"h", "i", "g", "h">>

AuditAction_to_string(v) ==
    CASE v = "Created" -> <<"c", "r", "e", "a", "t", "e", "d">>
      [] v = "Updated" -> <<"u", "p", "d", "a", "t", "e", "d">>
      [] v = "Deleted" -> <<"d", "e", "l", "e", "t", "e", "d">>
      [] v = "StatusChanged" -> <<"s", "t", "a", "t", "u", "s", "_", "c", "h", "a", "n", "g", "e", "d">>

AuthProvider_to_string(v) ==
    CASE v = "AzureAd" -> <<"a", "z", "u", "r", "e", "_", "a", "d">>
      [] v = "Passkey" -> <<"p", "a", "s", "s", "k", "e", "y">>
      [] v = "Password" -> <<"p", "a", "s", "s", "w", "o", "r", "d">>

(* impl FromStr for RequestStatus *)
RequestStatus_from_str(s) ==
    CASE to_lowercase(s) = <<"o", "p", "e", "n">> -> Ok("Open")
      [] to_lowercase(s) = <<"i", "n", "_", "p", "r", "o", "g", "r", "e", "s", "s">> -> Ok("InProgress")
      [] to_lowercase(s) = <<"r", "e", "s", "o", "l", "v", "e", "d">> -> Ok("Resolved")
      [] OTHER -> Err("Invalid request status: ", s)

RequestCategory_from_str_exact(s) ==
    CASE s = <<"I", "T">> -> Ok("IT")
      [] s = <<"O", "P", "S">> -> Ok("Ops")
      [] s = <<"A", "D", "M", "I", "N">> -> Ok("Admin")
      [] s = <<"H", "R">> -> Ok("HR")
      [] OTHER -> Err("Invalid request category: ", s)

(* impl FromStr for RequestCategory *)
RequestCategory_from_str(s) ==
    CASE to_uppercase(s) = <<"I", "T">> -> Ok("IT")
      [] to_uppercase(s) = <<"O", "P", "S">> -> Ok("Ops")
      [] to_uppercase(s) = <<"A", "D", "M", "I", "N">> -> Ok("Admin")
      [] to_uppercase(s) = <<"H", "R">> -> Ok("HR")
      [] OTHER -> Err("Invalid request category: ", s)

(* impl FromStr for RequestPriority *)
RequestPriority_from_str(s) ==
    CASE to_lowercase(s) = <<"l", "o", "w">> -> Ok("Low")
      [] to_lowercase(s) = <<"m", "e", "d", "i", "u", "m">> -> Ok("Medium")
      [] to_lowercase(s) = <<"h", "i", "g", "h">> -> Ok("High")
      [] OTHER -> Err("Invalid request priority: ", s)

(* impl From<&str> for AuditAction *)
AuditAction_from(s) ==
    CASE to_lowercase(s) = <<"c", "e", "a", "t", "e", "d">> -> Ok("Created")
      [] to_lowercase(s) = <<"u", "p", "d", "a", "t", "e", "d">> -> Ok("Updated")
      [] to_lowercase(s) = <<"d", "e", "l", "e", "t", "e", "d">> -> Ok("Deleted")
      [] to_lowercase(s) = <<"s", "t", "a", "t", "u", "s", "_", "c", "h", "a", "n", "g", "e", "d">> -> Ok("StatusChanged")
      [] OTHER -> Panic("Invalid audit action: ", s)

(* impl From<String> / From<&str> for AuthProvider *)
AuthProvider_from(value) ==
    CASE to_lowercase(value) = <<"a", "z", "u", "r", "e", "_", "a", "d">> -> Ok("AzureAd")
      [] to_lowercase(value) = <<"p", "a", "s", "s", "k", "e", "y">> -> Ok("Passkey")
      [] to_lowercase(value) = <<"p", "a", "s", "s", "w", "o", "r", "d">> -> Ok("Password")
      [] OTHER -> Panic("Invalid auth provider: ", value)

EnumTypes == DOMAIN EnumValues

Display(type, v) ==
    CASE type = "RequestStatus" -> RequestStatus_to_string(v)
      [] type = "RequestCategory" -> RequestCategory_to_string(v)
      [] type = "RequestPriority" -> RequestPriority_to_string(v)
      [] type = "AuditAction" -> AuditAction_to_string(v)
      [] type = "AuthProvider" -> AuthProvider_to_string(v)

Parse(type, s) ==
    CASE type = "RequestStatus" -> RequestStatus_from_str(s)
      [] type = "RequestCategory" -> RequestCategory_from_str(s)
      [] type = "RequestPriority" -> RequestPriority_from_str(s)
      [] type = "AuditAction" -> AuditAction_from(s)
      [] type = "AuthProvider" -> AuthProvider_from(s)

(* The string forms of all values. *)
Names == UNION { { Display(t, v) : v \in EnumValues[t] } : t \in EnumTypes }

(* Strings handed to the parsers: every name as written, in lower and in
   upper case, and strings that name no value. *)
ParseInputs ==
    Names \cup { to_lowercase(n) : n \in Names }
          \cup { to_uppercase(n) : n \in Names }
          \cup { <<"i", "n", "v", "a", "l", "i", "d">>, <<"c", "e", "a", "t", "e", "d">>, <<"i", "n", " ", "p", "r", "o", "g", "r", "e", "s", "s">>, <<"o", "p">>, <<>> }

outsideConversions == <<now, ceremonyVars, sessionVars, sessionCallVars,
                        resolveVars, guardVars, passwordVars, handlerVars,
                        credentialVars, metricsVars, finishVars,
                        requestVars>>

(* v.to_string() *)
ConvDisplay(type, v) ==
    /\ conv' = Some([type |-> type, value |-> Some(v),
                     text |-> Display(type, v), parsed |-> None])
    /\ UNCHANGED outsideConversions

(* a string arriving from a query parameter or a stored column *)
ConvInput(type, s) ==
    /\ conv' = Some([type |-> type, value |-> None, text |-> s,
                     parsed |-> None])
    /\ UNCHANGED outsideConversions

(* T::from_str(text) / T::from(text) *)
ConvParse ==
    /\ conv # None
    /\ Unwrap(conv).parsed = None
    /\ conv' = Some([Unwrap(conv) EXCEPT
                        !.parsed = Some(Parse(Unwrap(conv).type,
                                              Unwrap(conv).text))])
    /\ UNCHANGED outsideConversions

----------------------------------------------------------------------------
(* passkey_register_finish (auth/passkey.rs) and logout (main.rs), run as
   handler calls next to passkey_register_start. *)

(* What neither handler writes. *)
registrationRest == <<now, sessionCallVars, guardVars, resolveRest,
                      ceremonyRest, metricsVars, convVars, requestVars,
                      passwordVars,
                      usersTable, huser, hsession, hcookie, hlookupFailed,
                      hverified, hnewUser, sessionOrigin, pkLastCall>>

(* The registration is followed for the browser that holds the first
   session token, or no cookie. *)
RegistrationCookies == {None} \cup { Some(t) : t \in CeremonyTokens }

RegistrationStartArgs ==
    { a \in RegisterStartArgs : a.cookie \in RegistrationCookies }

FinishArgs ==
    { [handler |-> "passkey_register_finish", email |-> "", name |-> "",
       password |-> "", cookie |-> k] : k \in RegistrationCookies }

LogoutArgs ==
    { [handler |-> "logout", email |-> "", name |-> "", password |-> "",
       cookie |-> k] : k \in RegistrationCookies }

(* webauthn.finish_passkey_registration(&credential, &reg_state):
   `answers` tells whether the posted credential answers the challenge of
   the registration state. *)
finish_passkey_registration(answers, reg_state) ==
    IF answers THEN Ok(<<"cred", reg_state>>)
    ELSE Err("Unauthorized", "Passkey registration failed")

(* passkey_register_finish, lines 149-155 and
   consume_session_passkey_reg_uid, lines 40-42 and 55-57: the cookie,
   then GET. *)
FinishGet(c, args, up) ==
    /\ HandlerBegin(c, args)
    /\ IF args.cookie = None
       THEN /\ HandlerReturn(c, Err("Unauthorized", "Missing session"))
            /\ UNCHANGED hnonce
       ELSE IF ~up
       THEN /\ HandlerReturn(c, Err("Redis", "unreachable"))
            /\ UNCHANGED hnonce
       ELSE IF RedisGet(redis, RegKey(Unwrap(args.cookie))) = None
       THEN /\ HandlerReturn(c, Err("Unauthorized",
                                     "Invalid or expired state"))
            /\ UNCHANGED hnonce
       ELSE /\ hnonce' = [hnonce EXCEPT ![c] =
                             RedisGet(redis, RegKey(Unwrap(args.cookie)))]
            /\ HandlerGoto(c, "finish_del")
    /\ UNCHANGED <<registrationRest, sessionsTable, invalidated, regStore,
                   credentials, hcredential>>

FinishDelKeepsRecord(c, up, answers) ==
    /\ hpc[c] = "finish_del"
    /\ LET parsed == from_str(Unwrap(hnonce[c]))
           verified == finish_passkey_registration(answers, parsed[2][1])
       IN IF ~up THEN HandlerReturn(c, Err("Redis", "unreachable"))
          ELSE IF ~IsOk(parsed) THEN HandlerReturn(c, parsed)
          ELSE IF ~IsOk(verified) THEN HandlerReturn(c, verified)
          ELSE HandlerGoto(c, "finish_create")
    /\ UNCHANGED <<registrationRest, sessionsTable, invalidated, regStore,
                   credentials, hargs, hnonce, hcredential>>

(* consume_session_passkey_reg_uid, lines 45-53: DEL, then the value read
   earlier is parsed; passkey_register_finish, lines 157-162:
   finish_passkey_registration. *)
FinishDel(c, up, answers) ==
    /\ hpc[c] = "finish_del"
    /\ LET parsed == from_str(Unwrap(hnonce[c]))
           verified == finish_passkey_registration(answers, parsed[2][1])
       IN IF ~up
          THEN /\ HandlerReturn(c, Err("Redis", "unreachable"))
               /\ UNCHANGED redis
          ELSE /\ redis' = RedisDel(redis,
                                    RegKey(Unwrap(Unwrap(hargs[c]).cookie)))
               /\ IF ~IsOk(parsed) THEN HandlerReturn(c, parsed)
                  ELSE IF ~IsOk(verified) THEN HandlerReturn(c, verified)
                  ELSE HandlerGoto(c, "finish_create")
    /\ UNCHANGED <<registrationRest, sessionsTable, invalidated,
                   nextChallenge, lastStored, credentials, hargs, hnonce,
                   hcredential>>

(* lines 164-180: PasskeyCredential::create for the user id read from the
   ceremony record; the authenticator makes a new credential id for
   every registration. *)
FinishCreate(c, up) ==
    /\ hpc[c] = "finish_create"
    /\ IF ~up
       THEN /\ HandlerReturn(c, DatabaseUnreachable)
            /\ UNCHANGED <<credentials, hcredential>>
       ELSE /\ credentials' = credentials \cup
                   {[id |-> Cardinality(credentials) + 1,
                     user_id |-> from_str(Unwrap(hnonce[c]))[2][2],
                     credential_id |-> <<"cred", c>>,
                     public_key |-> <<"public-key", <<"cred", c>>>>,
                     counter |-> 0]}
            /\ hcredential' = [hcredential EXCEPT ![c] = TRUE]
            /\ HandlerReturn(c, Ok(201))
    /\ UNCHANGED <<registrationRest, sessionsTable, invalidated, regStore,
                   hargs, hnonce>>

(* logout, line 210: the AuthContext extractor. *)
LogoutGuard(c, args, up) ==
    /\ HandlerBegin(c, args)
    /\ IF args.cookie = None
       THEN HandlerReturn(c, Err("Unauthorized", "Missing session cookie"))
       ELSE IF ~up THEN HandlerReturn(c, DatabaseUnreachable)
       ELSE IF find_valid(Unwrap(args.cookie)) = None
       THEN HandlerReturn(c, Err("Unauthorized",
                                 "Invalid or expired session"))
       ELSE IF is_expired(Unwrap(find_valid(Unwrap(args.cookie))).session)
       THEN HandlerReturn(c, Err("Unauthorized", "Session expired"))
       ELSE IF find_user_by_id(Unwrap(find_valid(Unwrap(args.cookie)))
                                   .session.user_id) = None
       THEN HandlerReturn(c, Err("Unauthorized", "User not found"))
       ELSE HandlerGoto(c, "logout_invalidate")
    /\ UNCHANGED <<registrationRest, sessionsTable, invalidated, regStore,
                   credentials, finishVars>>

(* logout, lines 214-235: Session::invalidate on the cookie's token. *)
LogoutInvalidate(c, up) ==
    /\ hpc[c] = "logout_invalidate"
    /\ IF ~up
       THEN /\ HandlerReturn(c, DatabaseUnreachable)
            /\ UNCHANGED <<sessions, invalidated>>
       ELSE /\ sessions' = { s \in sessions :
                   s.token_hash #
                       hash_token(Unwrap(Unwrap(hargs[c]).cookie)) }
            /\ invalidated' = invalidated \cup
                   ({Unwrap(Unwrap(hargs[c]).cookie)} \cap IssuedTokens)
            /\ HandlerReturn(c, Ok(200))
    /\ UNCHANGED <<registrationRest, sessionsCreated, issued, sessionExpiry,
                   regStore, credentials, hargs, finishVars>>

----------------------------------------------------------------------------
(* The request handlers (handlers/requests.rs) over Request
   (models/request.rs) and AuditLog (models/audit_log.rs). *)

outsideRequests == <<now, ceremonyVars, sessionVars, sessionCallVars,
                     resolveVars, guardVars, passwordVars, handlerVars,
                     credentialVars, metricsVars, convVars, finishVars>>

requestTable == <<requestRows, requestsCreated>>
auditTable == <<audit_logs, auditsCreated>>

(* One request is followed: the handlers address a request by its id and
   the rows are independent of each other. *)
RequestIds == {1}

(* UpdateRequest: the status and the priority asked for. *)
UpdateInputs ==
    { [status |-> None, priority |-> None],
      [status |-> Some("InProgress"), priority |-> None],
      [status |-> Some("InProgress"), priority |-> Some("High")] }

(* The users who file requests; every user calls the other handlers. User
   ids are interchangeable, so one filing user shows every case of owner
   and non-owner. *)
Filers == {1}

(* A call: the handler, the authenticated user (auth.user.id), the id in
   the path and the body. *)
RequestArgs ==
    { [handler |-> "create_request", auth |-> u, id |-> 0, title |-> t,
       input |-> None] : u \in Filers, t \in {"", "printer"} }
    \cup { [handler |-> h, auth |-> u, id |-> i, title |-> "",
            input |-> None] :
             h \in {"get_request", "delete_request", "get_request_audit"},
             u \in UserIds, i \in RequestIds }
    \cup { [handler |-> "update_request", auth |-> u, id |-> i,
            title |-> "", input |-> Some(in)] :
             u \in UserIds, i \in RequestIds, in \in UpdateInputs }

(* Request::find_by_id *)
find_request_by_id(id) == OptionOf({ r \in requestRows : r.id = id })

(* AuditLog::find_by_request_id *)
find_by_request_id(request_id) ==
    { e \in audit_logs : e.request_id = request_id }

RequestNotFound(id) == Err("NotFound", <<"Request not found", id>>)

(* An audit row whose request row does not exist (the request's delete
   cascades to its audit rows). *)
ForeignKeyViolation == Err("Database", "23503")

(* A call starts: calls start in order, at most NumWorkers are in
   flight. *)
RequestBegin(c) ==
    /\ qpc[c] = "idle"
    /\ IF c = 1 THEN TRUE ELSE qpc[c - 1] # "idle"
    /\ Cardinality({ d \in RequestCalls : qpc[d] \notin {"idle", "done"} })
           < NumWorkers

(* The handler returns r: its locals are dropped. qlast keeps, of the
   call that returned last, the handler, the authenticated user, the
   user_id of the row its opening read found and the response. *)
RequestReturn(c, args, existing, r) ==
    /\ qpc' = [qpc EXCEPT ![c] = "done"]
    /\ qargs' = [qargs EXCEPT ![c] = None]
    /\ qexisting' = [qexisting EXCEPT ![c] = None]
    /\ qread' = [qread EXCEPT ![c] = None]
    /\ qlast' = Some([handler |-> args.handler,
                      auth |-> args.auth,
                      owner |-> IF existing = None THEN None
                                ELSE Some(Unwrap(existing).user_id),
                      result |-> r])

(* The handler goes on to its next await. *)
RequestGoto(c, label, args, existing, read) ==
    /\ qpc' = [qpc EXCEPT ![c] = label]
    /\ qargs' = [qargs EXCEPT ![c] = Some(args)]
    /\ qexisting' = [qexisting EXCEPT ![c] = existing]
    /\ qread' = [qread EXCEPT ![c] = read]
    /\ UNCHANGED qlast

(* AuditLog::create and find_by_request_id read the action column back
   into an AuditAction (From<String>); a stored string with no arm there
   panics in the calling task, after the statement ran. *)
AuditDecoded(stored) == AuditAction_from(stored)

(* AuditLog::create: the INSERT. *)
InsertAudit(request_id, user_id, action, old_value, new_value) ==
    /\ audit_logs' = audit_logs \cup
           {[id |-> auditsCreated + 1,
             request_id |-> request_id,
             user_id |-> Some(user_id),
             action |-> AuditAction_to_string(action),
             old_value |-> old_value,
             new_value |-> new_value]}
    /\ auditsCreated' = auditsCreated + 1

FindOwnedByAnyone(c, args, up, message, next) ==
    /\ RequestBegin(c)
    /\ LET found == find_request_by_id(args.id)
       IN IF ~up
          THEN RequestReturn(c, args, None, DatabaseUnreachable)
          ELSE IF found = None
          THEN RequestReturn(c, args, None, RequestNotFound(args.id))
          ELSE IF next = "done"
          THEN RequestReturn(c, args, found, Ok(Unwrap(found)))
          ELSE RequestGoto(c, next, args, found, None)
    /\ UNCHANGED <<outsideRequests, requestTable, auditTable, qaudit>>

(* The opening of get_request, update_request, delete_request and
   get_request_audit: Request::find_by_id, NotFound when there is no row,
   Forbidden when request.user_id != Some(auth.user.id). *)
FindOwned(c, args, up, message, next) ==
    /\ RequestBegin(c)
    /\ LET found == find_request_by_id(args.id)
       IN IF ~up
          THEN RequestReturn(c, args, None, DatabaseUnreachable)
          ELSE IF found = None
          THEN RequestReturn(c, args, None, RequestNotFound(args.id))
          ELSE IF Unwrap(found).user_id # Some(args.auth)
          THEN RequestReturn(c, args, found, Err("Forbidden", message))
          ELSE IF next = "done"
          THEN RequestReturn(c, args, found, Ok(Unwrap(found)))
          ELSE RequestGoto(c, next, args, found, None)
    /\ UNCHANGED <<outsideRequests, requestTable, auditTable, qaudit>>

(* create_request, lines 35-52: the title check and Request::create. *)
CreateInsert(c, args, up) ==
    /\ args.handler = "create_request"
    /\ RequestBegin(c)
    /\ IF args.title = ""
       THEN /\ RequestReturn(c, args, None,
                             Err("BadRequest", "Title cannot be empty"))
            /\ UNCHANGED requestTable
       ELSE IF ~up
       THEN /\ RequestReturn(c, args, None, DatabaseUnreachable)
            /\ UNCHANGED requestTable
       ELSE /\ requestsCreated + 1 \in RequestIds
            /\ LET row == [id |-> requestsCreated + 1,
                           user_id |-> Some(args.auth),
                           title |-> args.title,
                           status |-> "Open",
                           priority |-> "Low"]
               IN /\ requestRows' = requestRows \cup {row}
                  /\ requestsCreated' = requestsCreated + 1
                  /\ RequestGoto(c, "create_audit", args, Some(row), None)
    /\ qaudit' = [qaudit EXCEPT ![c] = None]
    /\ UNCHANGED <<outsideRequests, auditTable>>

(* create_request, lines 54-67: AuditLog::create(Created). *)
CreateAudit(c, up) ==
    /\ qpc[c] = "create_audit"
    /\ LET args == Unwrap(qargs[c])
           row == Unwrap(qexisting[c])
       IN IF ~up
          THEN /\ RequestReturn(c, args, qexisting[c], DatabaseUnreachable)
               /\ UNCHANGED auditTable
          ELSE IF find_request_by_id(row.id) = None
          THEN /\ RequestReturn(c, args, qexisting[c], ForeignKeyViolation)
               /\ UNCHANGED auditTable
          ELSE /\ InsertAudit(row.id, args.auth, "Created", None,
                     Some(<<row.title,
                            RequestPriority_to_string(row.priority)>>))
               /\ IF IsOk(AuditDecoded(AuditAction_to_string("Created")))
                  THEN RequestReturn(c, args, qexisting[c], Ok(row))
                  ELSE RequestReturn(c, args, qexisting[c],
                           AuditDecoded(AuditAction_to_string("Created")))
    /\ UNCHANGED <<outsideRequests, requestTable, qaudit>>

(* get_request *)
GetRequest(c, args, up) ==
    /\ args.handler = "get_request"
    /\ FindOwned(c, args, up, "You can only view your own requests", "done")

(* update_request, lines 130-139 *)
UpdateFind(c, args, up) ==
    /\ args.handler = "update_request"
    /\ FindOwned(c, args, up, "You can only modify your own requests",
                 "update_read")

(* existing.status != *status, existing.priority != *priority *)
StatusDiffers(in, existing) ==
    /\ in.status # None
    /\ existing.status # Unwrap(in.status)

PriorityDiffers(in, existing) ==
    /\ in.priority # None
    /\ existing.priority # Unwrap(in.priority)

(* Request::update, lines 267-269: the second read of the row. The model's
   inputs carry no title and no description, so `updates` is empty exactly
   when neither a status nor a priority is supplied. *)
UpdateRead(c, up) ==
    /\ qpc[c] = "update_read"
    /\ LET args == Unwrap(qargs[c])
           in == Unwrap(args.input)
           found == find_request_by_id(args.id)
       IN IF ~up
          THEN RequestReturn(c, args, qexisting[c], DatabaseUnreachable)
          ELSE IF found = None
          THEN RequestReturn(c, args, qexisting[c], RequestNotFound(args.id))
          ELSE IF StatusDiffers(in, Unwrap(found))
          THEN RequestGoto(c, "update_audit_status", args, qexisting[c],
                           found)
          ELSE IF PriorityDiffers(in, Unwrap(found))
          THEN RequestGoto(c, "update_audit_priority", args, qexisting[c],
                           found)
          ELSE IF in.status = None /\ in.priority = None
          THEN RequestReturn(c, args, qexisting[c], Ok(Unwrap(found)))
          ELSE RequestGoto(c, "update_exec", args, qexisting[c], found)
    /\ UNCHANGED <<outsideRequests, requestTable, auditTable, qaudit>>

(* Request::update, lines 296-312: the StatusChanged entry. *)
UpdateAuditStatus(c, up) ==
    /\ qpc[c] = "update_audit_status"
    /\ LET args == Unwrap(qargs[c])
           in == Unwrap(args.input)
           existing == Unwrap(qread[c])
       IN IF ~up
          THEN /\ RequestReturn(c, args, qexisting[c], DatabaseUnreachable)
               /\ UNCHANGED <<auditTable, qaudit>>
          ELSE IF find_request_by_id(args.id) = None
          THEN /\ RequestReturn(c, args, qexisting[c], ForeignKeyViolation)
               /\ UNCHANGED <<auditTable, qaudit>>
          ELSE /\ InsertAudit(args.id, args.auth, "StatusChanged",
                     Some(RequestStatus_to_string(existing.status)),
                     Some(RequestStatus_to_string(Unwrap(in.status))))
               /\ IF ~IsOk(AuditDecoded(AuditAction_to_string(
                                            "StatusChanged")))
                  THEN /\ RequestReturn(c, args, qexisting[c],
                              AuditDecoded(AuditAction_to_string(
                                               "StatusChanged")))
                       /\ UNCHANGED qaudit
                  ELSE /\ qaudit' = [qaudit EXCEPT
                                        ![c] = Some(auditsCreated + 1)]
                       /\ IF PriorityDiffers(in, existing)
                          THEN RequestGoto(c, "update_audit_priority", args,
                                           qexisting[c], qread[c])
                          ELSE RequestGoto(c, "update_exec", args,
                                           qexisting[c], qread[c])
    /\ UNCHANGED <<outsideRequests, requestTable>>

(* Request::update, lines 314-330: the Updated entry of a priority
   change. *)
UpdateAuditPriority(c, up) ==
    /\ qpc[c] = "update_audit_priority"
    /\ LET args == Unwrap(qargs[c])
           in == Unwrap(args.input)
           existing == Unwrap(qread[c])
       IN IF ~up
          THEN /\ RequestReturn(c, args, qexisting[c], DatabaseUnreachable)
               /\ qaudit' = [qaudit EXCEPT ![c] = None]
               /\ UNCHANGED auditTable
          ELSE IF find_request_by_id(args.id) = None
          THEN /\ RequestReturn(c, args, qexisting[c], ForeignKeyViolation)
               /\ qaudit' = [qaudit EXCEPT ![c] = None]
               /\ UNCHANGED auditTable
          ELSE /\ InsertAudit(args.id, args.auth, "Updated",
                     Some(RequestPriority_to_string(existing.priority)),
                     Some(RequestPriority_to_string(Unwrap(in.priority))))
               /\ IF ~IsOk(AuditDecoded(AuditAction_to_string("Updated")))
                  THEN /\ RequestReturn(c, args, qexisting[c],
                              AuditDecoded(AuditAction_to_string("Updated")))
                       /\ qaudit' = [qaudit EXCEPT ![c] = None]
                  ELSE /\ RequestGoto(c, "update_exec", args, qexisting[c],
                                      qread[c])
                       /\ UNCHANGED qaudit
    /\ UNCHANGED <<outsideRequests, requestTable>>

(* Request::update, lines 332-369: UPDATE ... WHERE id = $1 RETURNING,
   fetch_one. *)
UpdateExec(c, up) ==
    /\ qpc[c] = "update_exec"
    /\ LET args == Unwrap(qargs[c])
           in == Unwrap(args.input)
           found == find_request_by_id(args.id)
       IN IF ~up
          THEN /\ RequestReturn(c, args, qexisting[c], DatabaseUnreachable)
               /\ UNCHANGED requestTable
          ELSE IF found = None
          THEN /\ RequestReturn(c, args, qexisting[c],
                                Err("Database", "RowNotFound"))
               /\ UNCHANGED requestTable
          ELSE LET row == Unwrap(found)
                   written ==
                       [row EXCEPT
                          !.status = IF in.status = None THEN @
                                     ELSE Unwrap(in.status),
                          !.priority = IF in.priority = None THEN @
                                       ELSE Unwrap(in.priority)]
               IN /\ requestRows' = (requestRows \ {row}) \cup {written}
                  /\ UNCHANGED requestsCreated
                  /\ RequestReturn(c, args, qexisting[c], Ok(written))
    /\ qaudit' = [qaudit EXCEPT ![c] = None]
    /\ UNCHANGED <<outsideRequests, auditTable>>

(* delete_request, lines 161-169 *)
DeleteFind(c, args, up) ==
    /\ args.handler = "delete_request"
    /\ FindOwned(c, args, up, "You can only delete your own requests",
                 "delete_audit")

(* delete_request, lines 172-183: AuditLog::create(Deleted). *)
DeleteAudit(c, up) ==
    /\ qpc[c] = "delete_audit"
    /\ LET args == Unwrap(qargs[c])
           request == Unwrap(qexisting[c])
       IN IF ~up
          THEN /\ RequestReturn(c, args, qexisting[c], DatabaseUnreachable)
               /\ UNCHANGED auditTable
          ELSE IF find_request_by_id(args.id) = None
          THEN /\ RequestReturn(c, args, qexisting[c], ForeignKeyViolation)
               /\ UNCHANGED auditTable
          ELSE /\ InsertAudit(args.id, args.auth, "Deleted",
                     Some(<<request.title,
                            RequestStatus_to_string(request.status)>>),
                     None)
               /\ IF ~IsOk(AuditDecoded(AuditAction_to_string("Deleted")))
                  THEN RequestReturn(c, args, qexisting[c],
                           AuditDecoded(AuditAction_to_string("Deleted")))
                  ELSE RequestGoto(c, "delete_exec", args, qexisting[c],
                                   None)
    /\ UNCHANGED <<outsideRequests, requestTable, qaudit>>

(* delete_request, line 186: Request::delete; the row's audit rows go
   with it. *)
DeleteExec(c, up) ==
    /\ qpc[c] = "delete_exec"
    /\ LET args == Unwrap(qargs[c])
       IN IF ~up
          THEN /\ RequestReturn(c, args, qexisting[c], DatabaseUnreachable)
               /\ UNCHANGED <<requestRows, audit_logs>>
          ELSE /\ requestRows' = { r \in requestRows : r.id # args.id }
               /\ audit_logs' = audit_logs \ find_by_request_id(args.id)
               /\ RequestReturn(c, args, qexisting[c], Ok("NO_CONTENT"))
    /\ UNCHANGED <<outsideRequests, requestsCreated, auditsCreated, qaudit>>

(* get_request_audit, lines 205-213 *)
AuditFind(c, args, up) ==
    /\ args.handler = "get_request_audit"
    /\ FindOwned(c, args, up,
                 "You can only view audit logs for your own requests",
                 "audit_list")

(* get_request_audit, line 215: AuditLog::find_by_request_id. *)
AuditList(c, up) ==
    /\ qpc[c] = "audit_list"
    /\ LET args == Unwrap(qargs[c])
           rows == find_by_request_id(args.id)
           undecoded == { e \in rows : ~IsOk(AuditDecoded(e.action)) }
       IN IF ~up
          THEN RequestReturn(c, args, qexisting[c], DatabaseUnreachable)
          ELSE IF undecoded # {}
          THEN RequestReturn(c, args, qexisting[c],
                   AuditDecoded((CHOOSE e \in undecoded : TRUE).action))
          ELSE RequestReturn(c, args, qexisting[c], Ok(rows))
    /\ UNCHANGED <<outsideRequests, requestTable, auditTable, qaudit>>

----------------------------------------------------------------------------

Init ==
    /\ now = 0
    /\ redis = [k \in RegKeys |-> None]
    /\ nextChallenge = 1
    /\ cpc = [w \in Workers |-> "idle"]
    /\ ckey = [w \in Workers |-> None]
    /\ nonce = [w \in Workers |-> None]
    /\ cresult = [w \in Workers |-> None]
    /\ lastStored = [k \in RegKeys |-> 0]
    /\ deliveries = [c \in Challenges |-> 0]
    /\ startConsumed = [w \in Workers |-> FALSE]
    /\ startExpired = [w \in Workers |-> FALSE]
    /\ sessions = {}
    /\ sessionsCreated = 0
    /\ issued = {}
    /\ invalidated = {}
    /\ sessionExpiry = [id \in SessionIds |-> 0]
    /\ lastCall = None
    /\ cleanedCount = [id \in SessionIds |-> 0]
    /\ cleanupReturned = 0
    /\ users = {}
    /\ usersCreated = 0
    /\ identities = {}
    /\ rpc = [c \in ResolveCalls |-> "idle"]
    /\ rargs = [c \in ResolveCalls |-> None]
    /\ rident = [c \in ResolveCalls |-> None]
    /\ ruser = [c \in ResolveCalls |-> None]
    /\ rresult = [c \in ResolveCalls |-> None]
    /\ rprior = [c \in ResolveCalls |-> {}]
    /\ rexisting = [c \in ResolveCalls |-> None]
    /\ rnewUser = [c \in ResolveCalls |-> FALSE]
    /\ rnewIdentity = [c \in ResolveCalls |-> FALSE]
    /\ rlostRace = [c \in ResolveCalls |-> FALSE]
    /\ gpc = [r \in Requests |-> "idle"]
    /\ greq = [r \in Requests |-> None]
    /\ gfound = [r \in Requests |-> None]
    /\ gctx = [r \in Requests |-> None]
    /\ gresult = [r \in Requests |-> None]
    /\ passwords = {}
    /\ hashesMade = 0
    /\ pwLastCall = None
    /\ hpc = [c \in HandlerSlots |-> "idle"]
    /\ hargs = [c \in HandlerSlots |-> None]
    /\ huser = [c \in HandlerSlots |-> None]
    /\ hsession = [c \in HandlerSlots |-> None]
    /\ hcookie = [c \in HandlerSlots |-> None]
    /\ hresult = [c \in HandlerSlots |-> None]
    /\ hlookupFailed = [c \in HandlerSlots |-> FALSE]
    /\ hverified = [c \in HandlerSlots |-> FALSE]
    /\ hnewUser = [c \in HandlerSlots |-> FALSE]
    /\ sessionOrigin = [id \in SessionIds |-> None]
    /\ credentials = {}
    /\ pkLastCall = None
    /\ counts = [k \in MetricCounters |-> 0]
    /\ mpc = [w \in Workers |-> "idle"]
    /\ mcounter = [w \in Workers |-> None]
    /\ mreg = [w \in Workers |-> 0]
    /\ incremented = [k \in MetricCounters |-> 0]
    /\ conv = None
    /\ hnonce = [c \in HandlerSlots |-> None]
    /\ hcredential = [c \in HandlerSlots |-> FALSE]
    /\ requestRows = {}
    /\ requestsCreated = 0
    /\ audit_logs = {}
    /\ auditsCreated = 0
    /\ qpc = [c \in RequestCalls |-> "idle"]
    /\ qargs = [c \in RequestCalls |-> None]
    /\ qexisting = [c \in RequestCalls |-> None]
    /\ qread = [c \in RequestCalls |-> None]
    /\ qaudit = [c \in RequestCalls |-> None]
    /\ qlast = None

CeremonyNext ==
    \/ \E t \in CeremonyTokens, u \in UserIds :
           store_session_passkey_reg_uid(t, u)
    \/ \E w \in Workers, t \in CeremonyTokens : ConsumeGetHit(w, t)
    \/ \E w \in Workers, t \in CeremonyTokens : ConsumeGetMiss(w, t)
    \/ \E w \in Workers, t \in CeremonyTokens : ConsumeGetFails(w, t)
    \/ \E w \in Workers : ConsumeDel(w)
    \/ \E w \in Workers : ConsumeDelFails(w)
    \/ CeremonyTick

CeremonySpec == Init /\ [][CeremonyNext]_vars

IdentityArgs == {None} \cup { Some(i.id) : i \in identities }

SessionNext ==
    \/ \E u \in UserIds, i \in IdentityArgs, p \in AuthProviders :
           SessionCreate(u, i, p) /\ UNCHANGED sessionCallVars
    \/ \E t \in Tokens : SessionInvalidate(t) /\ UNCHANGED sessionCallVars
    \/ \E u \in UserIds :
           SessionInvalidateAllForUser(u) /\ UNCHANGED sessionCallVars
    \/ SessionCleanupExpired /\ UNCHANGED sessionCallVars
    \/ \E id \in SessionIds : SessionExtend(id) /\ UNCHANGED sessionCallVars
    \/ SessionTick /\ UNCHANGED sessionCallVars

SessionSpec == Init /\ [][SessionNext]_vars

(* The session manager's calls with what each returns to its caller.
   Sessions are created as password_login creates them: no linked identity,
   provider password. *)
RowsWithToken(token) == { s \in sessions : s.token_hash = hash_token(token) }
RowsOfUser(user_id) == { s \in sessions : s.user_id = user_id }
ExpiredRows == { s \in sessions : s.expires_at <= now }
RowsWithId(id) == { s \in sessions : s.id = id }

Called(op, arg, result, rows) ==
    lastCall' = Some([op |-> op, arg |-> arg, result |-> result,
                      rows |-> rows])

CallCreate(user_id) ==
    /\ SessionCreate(user_id, None, "password")
    /\ Called("create", user_id,
              Ok(<<NewSessionRow(sessionsCreated + 1, user_id, None,
                                 "password"),
                   generate_session_token(sessionsCreated + 1)>>), 1)
    /\ UNCHANGED <<cleanedCount, cleanupReturned>>

CallInvalidate(token) ==
    /\ SessionInvalidate(token)
    /\ Called("invalidate", token, Ok(<<>>),
              Cardinality(RowsWithToken(token)))
    /\ UNCHANGED <<cleanedCount, cleanupReturned>>

CallInvalidateAllForUser(user_id) ==
    /\ SessionInvalidateAllForUser(user_id)
    /\ Called("invalidate_all_for_user", user_id, Ok(<<>>),
              Cardinality(RowsOfUser(user_id)))
    /\ UNCHANGED <<cleanedCount, cleanupReturned>>

(* cleanup_expired returns rows_affected of its DELETE. *)
CallCleanupExpired ==
    /\ SessionCleanupExpired
    /\ LET rows_affected == Cardinality(sessions) - Cardinality(sessions')
       IN /\ Called("cleanup_expired", None, Ok(rows_affected),
                    rows_affected)
          /\ cleanupReturned' = cleanupReturned + rows_affected
    /\ cleanedCount' = [id \in SessionIds |->
                           IF RowsWithId(id) # {} /\ RowsWithId(id)' = {}
                           THEN cleanedCount[id] + 1
                           ELSE cleanedCount[id]]

(* extend returns the updated row; fetch_one on no row is RowNotFound. *)
CallExtend(id) ==
    /\ SessionExtend(id)
    /\ Called("extend", id,
              IF RowsWithId(id) # {}
              THEN Ok(CHOOSE r \in RowsWithId(id)' : TRUE)
              ELSE Err("Database", "RowNotFound"),
              Cardinality(RowsWithId(id)))
    /\ UNCHANGED <<cleanedCount, cleanupReturned>>

SessionCallsNext ==
    \/ \E u \in UserIds : CallCreate(u)
    \/ \E t \in Tokens : CallInvalidate(t)
    \/ \E u \in UserIds : CallInvalidateAllForUser(u)
    \/ CallCleanupExpired
    \/ \E id \in SessionIds : CallExtend(id)
    \/ SessionTick /\ UNCHANGED sessionCallVars

SessionCallsSpec == Init /\ [][SessionCallsNext]_vars

SignupEmails == {"a@x.com"}

(* The store is followed until the request has been answered. *)
Unanswered == \E r \in Requests : gpc[r] # "done"

GuardNext ==
    \/ \E e \in SignupEmails : Unanswered /\ UserCreate(e, None)
    \/ \E u \in users, p \in AuthProviders :
           /\ Unanswered
           /\ SessionCreate(u.id, None, p)
           /\ UNCHANGED sessionCallVars
    \/ \E t \in Tokens :
           /\ Unanswered
           /\ SessionInvalidate(t)
           /\ UNCHANGED sessionCallVars
    \/ Unanswered /\ SessionTick /\ UNCHANGED sessionCallVars
    \/ \E id \in UserIds : Unanswered /\ UserDelete(id)
    \/ \E id \in UserIds : Unanswered /\ UserDeleteCascade(id)
    \/ \E r \in Requests, c \in Cookies, up \in BOOLEAN :
           GuardFindValid(r, c, up)
    \/ \E r \in Requests, up \in BOOLEAN : GuardLoadUser(r, up)

GuardSpec == Init /\ [][GuardNext]_vars

ResolveNext ==
    \/ \E c \in ResolveCalls, a \in ResolveArgs : ResolveLookupHit(c, a)
    \/ \E c \in ResolveCalls, a \in ResolveArgs : ResolveLookupMiss(c, a)
    \/ \E c \in ResolveCalls, a \in ResolveArgs :
           ResolveLookupMissNoEmail(c, a)
    \/ \E c \in ResolveCalls : ResolveLoadOwner(c)
    \/ \E c \in ResolveCalls : ResolveFindByEmail(c)
    \/ \E c \in ResolveCalls : ResolveCreateUser(c)
    \/ \E c \in ResolveCalls : ResolveCreateUserConflict(c)
    \/ \E c \in ResolveCalls : ResolveCreateIdentity(c)
    \/ \E c \in ResolveCalls : ResolveCreateIdentityConflict(c)

ResolveSpec == Init /\ [][ResolveNext]_vars

HandlersNext ==
    \/ \E c \in HandlerCalls, a \in SignupArgs, up \in BOOLEAN :
           SignupFindByEmail(c, a, up)
    \/ \E c \in HandlerCalls, up \in BOOLEAN : SignupCreateUser(c, up)
    \/ \E c \in HandlerCalls, up \in BOOLEAN : SignupCreatePassword(c, up)
    \/ \E c \in HandlerCalls, up \in BOOLEAN : SignupCreateSession(c, up)
    \/ \E c \in HandlerCalls, a \in LoginArgs, up \in BOOLEAN :
           LoginFindByEmail(c, a, up)
    \/ \E c \in HandlerCalls, up \in BOOLEAN : LoginVerify(c, up)
    \/ \E c \in HandlerCalls, up \in BOOLEAN : LoginCreateSession(c, up)
    \/ \E c \in HandlerCalls, a \in RegisterStartArgs, up \in BOOLEAN :
           RegisterStartFindValid(c, a, up)
    \/ \E c \in HandlerCalls, up \in BOOLEAN : RegisterStartCreateUser(c, up)
    \/ \E c \in HandlerCalls, up \in BOOLEAN :
           RegisterStartCreateSession(c, up)
    \/ \E c \in HandlerCalls, up \in BOOLEAN : RegisterStartStore(c, up)

HandlersSpec == Init /\ [][HandlersNext]_vars

CredentialsNext ==
    \/ \E u \in UserIds, k \in CredentialIds : PasskeyCreate(u, k)
    \/ \E k \in CredentialIds, c \in Counters : update_counter(k, c)

CredentialsSpec == Init /\ [][CredentialsNext]_vars

PasswordsNext ==
    \/ \E u \in UserIds, p \in PasswordInputs : PasswordCreate(u, p)
    \/ \E u \in UserIds, p \in PasswordInputs : PasswordUpdate(u, p)
    \/ \E u \in UserIds : PasswordDelete(u)

PasswordsSpec == Init /\ [][PasswordsNext]_vars

MetricsNext ==
    \/ \E w \in Workers, k \in MetricCounters : IncrementLoad(w, k)
    \/ \E w \in Workers : IncrementStore(w)

MetricsSpec == Init /\ [][MetricsNext]_vars

ConversionsNext ==
    \/ \E t \in EnumTypes : \E v \in EnumValues[t] : ConvDisplay(t, v)
    \/ \E t \in EnumTypes, s \in ParseInputs : ConvInput(t, s)
    \/ ConvParse

ConversionsSpec == Init /\ [][ConversionsNext]_vars

RegistrationNext ==
    \/ \E c \in RegistrationCalls, a \in RegistrationStartArgs,
          up \in BOOLEAN :
           RegisterStartFindValid(c, a, up)
    \/ \E c \in RegistrationCalls, up \in BOOLEAN :
           RegisterStartCreateUser(c, up)
    \/ \E c \in RegistrationCalls, up \in BOOLEAN :
           RegisterStartCreateSession(c, up)
    \/ \E c \in RegistrationCalls, up \in BOOLEAN : RegisterStartStore(c, up)
    \/ \E c \in RegistrationCalls, a \in FinishArgs, up \in BOOLEAN :
           FinishGet(c, a, up)
    \/ \E c \in RegistrationCalls, up \in BOOLEAN, answers \in BOOLEAN :
           FinishDel(c, up, answers)
    \/ \E c \in RegistrationCalls, up \in BOOLEAN : FinishCreate(c, up)
    \/ \E c \in RegistrationCalls, a \in LogoutArgs, up \in BOOLEAN :
           LogoutGuard(c, a, up)
    \/ \E c \in RegistrationCalls, up \in BOOLEAN : LogoutInvalidate(c, up)

RegistrationSpec == Init /\ [][RegistrationNext]_vars

RequestsNext ==
    \/ \E c \in RequestCalls, args \in RequestArgs, up \in BOOLEAN :
           \/ CreateInsert(c, args, up)
           \/ GetRequest(c, args, up)
           \/ UpdateFind(c, args, up)
           \/ DeleteFind(c, args, up)
           \/ AuditFind(c, args, up)
    \/ \E c \in RequestCalls, up \in BOOLEAN :
           \/ CreateAudit(c, up)
           \/ UpdateRead(c, up)
           \/ UpdateAuditStatus(c, up)
           \/ UpdateAuditPriority(c, up)
           \/ UpdateExec(c, up)
           \/ DeleteAudit(c, up)
           \/ DeleteExec(c, up)
           \/ AuditList(c, up)

RequestsSpec == Init /\ [][RequestsNext]_vars

----------------------------------------------------------------------------
(* C1: when several workers consume the same key concurrently, no stored
   record is handed to more than one of them: every record is returned by
   at most one consume call. *)
C1_ExactlyOneConsumer == \A c \in Challenges : deliveries[c] <= 1

(* C2: a consume call that starts after the record last stored under its
   key was already returned by a finished consume call gets the not-found
   outcome, the same outcome as for an expired or never-stored key (or the
   store's own failure when Redis is unreachable); it never returns a value.
   A call that does return a value returns the one that was stored. *)
NotFoundOutcome == Err("Unauthorized", "Invalid or expired state")

C2_SecondConsumeNotFound ==
    \A w \in Workers :
        /\ (cpc[w] # "idle" /\ startConsumed[w]) =>
               /\ cpc[w] = "done"
               /\ Unwrap(cresult[w]) \in
                      {NotFoundOutcome, Err("Redis", "unreachable")}
        /\ (cpc[w] = "done" /\ IsOk(Unwrap(cresult[w]))) =>
               /\ ~startConsumed[w]
               /\ to_string(Unwrap(cresult[w])[2]) = Unwrap(nonce[w])

C2_Witness ==
    \E w \in Workers :
        /\ cpc[w] = "done"
        /\ startConsumed[w]
        /\ now < PASSKEY_REG_TTL
        /\ Unwrap(cresult[w]) = NotFoundOutcome

----------------------------------------------------------------------------
(* C3: for every token returned by Session::create, find_valid returns the
   session created with it (same session id, same user id) as long as the
   session has not been invalidated (by invalidate on the token or by
   invalidate_all_for_user on its owner) and its expires_at, as set by create
   or by the last extend, has not elapsed; once either has happened
   find_valid returns nothing. *)
C3_FindValidUntilInvalidatedOrExpired ==
    \A i \in issued :
        LET r == find_valid(i.token)
        IN IF i.token \in invalidated \/ sessionExpiry[i.id] <= now
           THEN r = None
           ELSE /\ r # None
                /\ Unwrap(r).session.id = i.id
                /\ Unwrap(r).session.user_id = i.user_id

C3_Witness ==
    /\ now > 0
    /\ \E i \in issued :
           /\ i.token \notin invalidated
           /\ sessionExpiry[i.id] > now
           /\ find_valid(i.token) # None
    /\ \E j \in issued :
           /\ j.token \notin invalidated
           /\ sessionExpiry[j.id] <= now
           /\ \E s \in sessions : s.id = j.id
           /\ find_valid(j.token) = None

(* C4: find_valid never returns a session whose expires_at <= now, whether
   or not the expired row is still stored; a token whose only rows are
   expired gets the same answer, nothing, as a token with no row at all. *)
C4_NeverReturnsExpired ==
    \A t \in PresentedTokens :
        /\ find_valid(t) # None =>
               Unwrap(find_valid(t)).session.expires_at > now
        /\ (\A s \in sessions : s.token_hash = hash_token(t) =>
                                    s.expires_at <= now)
               => find_valid(t) = None

C4_Witness ==
    \E i \in issued :
        /\ \E s \in sessions : s.id = i.id /\ s.expires_at = now
        /\ find_valid(i.token) = None

(* C5: the token_hash stored for a session is the digest of the raw token
   returned by create and differs from it; no stored row, and so no result
   of find_valid, holds a raw token that create returned. *)
C5_StoresOnlyDigest ==
    /\ \A i \in issued : \A s \in sessions :
           s.id = i.id => /\ s.token_hash = hash_token(i.token)
                          /\ s.token_hash # i.token
    /\ \A s \in sessions : s.token_hash \notin IssuedTokens
    /\ \A t \in PresentedTokens :
           find_valid(t) # None =>
               Unwrap(find_valid(t)).session.token_hash \notin IssuedTokens

C5_Witness ==
    \E i \in issued :
        /\ find_valid(i.token) # None
        /\ Unwrap(find_valid(i.token)).session.token_hash
               = hash_token(i.token)

----------------------------------------------------------------------------
(* Resolve calls as the claims speak of them *)

Returned(c) == rpc[c] = "done"
ReturnedOk(c) == Returned(c) /\ IsOk(Unwrap(rresult[c]))
ReturnedUser(c) == Unwrap(rresult[c])[2]
ArgsOf(c) == Unwrap(rargs[c])

IdentityRowsFor(c) ==
    { i \in identities : /\ i.provider = ArgsOf(c).provider
                         /\ i.subject = ArgsOf(c).subject }

(* Every call made so far ran alone: each other call had returned before
   it started, or started after it returned, or has not started. *)
OneAfterTheOther ==
    \A c, e \in ResolveCalls :
        (c # e /\ rpc[c] # "idle" /\ rpc[e] # "idle") =>
            (e \in rprior[c] \/ c \in rprior[e])

(* C6: no two ExternalIdentity rows share a (provider, subject); once a
   resolve call has returned Ok, exactly one row exists for its
   (provider, subject) and that row points at the user it returned, also
   when calls for the same pair ran concurrently. *)
C6_OneIdentityPerProviderSubject ==
    /\ \A i, j \in identities :
           (i.provider = j.provider /\ i.subject = j.subject) => i = j
    /\ \A c \in ResolveCalls :
           ReturnedOk(c) =>
               /\ Cardinality(IdentityRowsFor(c)) = 1
               /\ \A i \in IdentityRowsFor(c) : i.user_id = ReturnedUser(c).id

C6_Witness ==
    \E c, d \in ResolveCalls :
        /\ c # d
        /\ ReturnedOk(c) /\ rnewIdentity[c]
        /\ Returned(d) /\ Unwrap(rresult[d]) = UniqueViolation
        /\ ArgsOf(c).provider = ArgsOf(d).provider
        /\ ArgsOf(c).subject = ArgsOf(d).subject
        /\ c \notin rprior[d] /\ d \notin rprior[c]
        /\ Cardinality(IdentityRowsFor(c)) = 1

(* C7: a resolve call made with the arguments of an earlier call that
   returned Ok takes the existing-identity path only, returns Ok with the
   same user id, and inserts neither a user nor an identity. *)
C7_ResolveIdempotent ==
    \A c, d \in ResolveCalls :
        (d \in rprior[c] /\ ReturnedOk(d) /\ rargs[d] = rargs[c]) =>
            /\ rpc[c] \in {"found", "done"}
            /\ Returned(c) =>
                   /\ ReturnedOk(c)
                   /\ ReturnedUser(c).id = ReturnedUser(d).id
                   /\ ~rnewUser[c]
                   /\ ~rnewIdentity[c]

C7_Witness ==
    \E c, d \in ResolveCalls :
        /\ d \in rprior[c] /\ ReturnedOk(d) /\ rargs[d] = rargs[c]
        /\ rnewUser[d] /\ rnewIdentity[d]
        /\ ReturnedOk(c)
        /\ ReturnedUser(c).id = ReturnedUser(d).id

(* C8 as stated: of two calls made one after the other with different
   provider and subject and the same email, the second, whose
   (provider, subject) has no identity yet, returns the user id the first
   returned, inserting an identity and no user. *)
C8_LinkingSameUser ==
    OneAfterTheOther =>
        \A c, d \in ResolveCalls :
            (/\ d \in rprior[c] /\ ReturnedOk(d) /\ Returned(c)
             /\ ArgsOf(c).email # None
             /\ ArgsOf(c).email = ArgsOf(d).email
             /\ ArgsOf(c).provider # ArgsOf(d).provider
             /\ ArgsOf(c).subject # ArgsOf(d).subject
             /\ rexisting[c] = None) =>
                /\ ReturnedOk(c)
                /\ ReturnedUser(c).id = ReturnedUser(d).id
                /\ ~rnewUser[c]
                /\ rnewIdentity[c]

(* C8, amended: the same holds when the user the first call returned has
   that email and no identity was stored for the second call's
   (provider, subject) when it started; the second call then never inserts a
   user, and it fails only with the unique violation of an identity that a
   concurrent call inserted for its (provider, subject). *)
C8_LinkingWhenEmailOwnerAndNewKey ==
    \A c, d \in ResolveCalls :
        (/\ d \in rprior[c] /\ ReturnedOk(d) /\ Returned(c)
         /\ ArgsOf(c).email # None
         /\ ArgsOf(c).email = ArgsOf(d).email
         /\ ArgsOf(c).provider # ArgsOf(d).provider
         /\ ArgsOf(c).subject # ArgsOf(d).subject
         /\ ReturnedUser(d).email = Unwrap(ArgsOf(c).email)
         /\ rexisting[c] = None) =>
            /\ ~rnewUser[c]
            /\ IF ReturnedOk(c)
               THEN /\ ReturnedUser(c).id = ReturnedUser(d).id
                    /\ rnewIdentity[c]
                    /\ \A i \in IdentityRowsFor(c) :
                           i.user_id = ReturnedUser(d).id
               ELSE /\ Unwrap(rresult[c]) = UniqueViolation
                    /\ ~rnewIdentity[c]
                    /\ IdentityRowsFor(c) # {}
                    /\ ~OneAfterTheOther

C8_Witness ==
    \E c, d \in ResolveCalls :
        /\ d \in rprior[c] /\ ReturnedOk(d) /\ ReturnedOk(c)
        /\ ArgsOf(c).email # None
        /\ ArgsOf(c).email = ArgsOf(d).email
        /\ ArgsOf(c).provider # ArgsOf(d).provider
        /\ ArgsOf(c).subject # ArgsOf(d).subject
        /\ rnewUser[d]
        /\ rexisting[c] = None
        /\ rnewIdentity[c] /\ ~rnewUser[c]
        /\ ReturnedUser(c).id = ReturnedUser(d).id
        /\ Cardinality(users) = 1 /\ Cardinality(identities) = 2

(* C9: no two User rows share an email; a resolve call whose User::create
   met an email that a concurrent call had inserted since its own lookup
   returns the unique violation, which the API answers with 409 Conflict,
   and inserts neither a user nor an identity, so exactly one User row
   exists for that email. *)
C9_ConcurrentNewEmailOneUser ==
    /\ \A u, v \in users : u.email = v.email => u = v
    /\ \A c \in ResolveCalls :
           rlostRace[c] =>
               /\ Returned(c) /\ ~ReturnedOk(c)
               /\ into_response_status(Unwrap(rresult[c])) = 409
               /\ ~rnewUser[c] /\ ~rnewIdentity[c]
               /\ Cardinality({ u \in users :
                                  u.email = Unwrap(ArgsOf(c).email) }) = 1

C9_Witness ==
    \E c, d \in ResolveCalls :
        /\ c # d
        /\ rlostRace[c] /\ Returned(c)
        /\ ReturnedOk(d) /\ rnewUser[d]
        /\ ArgsOf(c).email = ArgsOf(d).email
        /\ c \notin rprior[d] /\ d \notin rprior[c]
        /\ rexisting[c] = None /\ rexisting[d] = None

(* C10: a resolve call for a (provider, subject) whose identity is already
   stored takes the existing-identity path, returns the user that identity
   points at whatever email it was given, and inserts nothing. *)
C10_ExistingIdentityWins ==
    \A c \in ResolveCalls :
        rexisting[c] # None =>
            /\ rpc[c] \in {"found", "done"}
            /\ Returned(c) =>
                   /\ ReturnedOk(c)
                   /\ ReturnedUser(c).id = Unwrap(rexisting[c]).user_id
                   /\ ~rnewUser[c] /\ ~rnewIdentity[c]

C10_Witness ==
    \E c \in ResolveCalls :
        /\ ReturnedOk(c)
        /\ rexisting[c] # None
        /\ ArgsOf(c).email # None
        /\ \E u \in users : /\ u.email = Unwrap(ArgsOf(c).email)
                            /\ u.id # ReturnedUser(c).id

(* C11: a resolve call made with no email for a (provider, subject) that
   has no identity returns the Unauthorized error in the step that looked
   the identity up, and that step leaves the users and external_identities
   tables as they were. *)
MissingEmailOutcome == Err("Unauthorized", "Azure identity missing email")

C11_NoEmailFailsTablesUnchanged ==
    [][\A c \in ResolveCalls :
          (/\ rpc[c] = "idle" /\ rpc'[c] # "idle"
           /\ Unwrap(rargs'[c]).email = None
           /\ rexisting'[c] = None) =>
              /\ rpc'[c] = "done"
              /\ rresult'[c] = Some(MissingEmailOutcome)
              /\ into_response_status(MissingEmailOutcome) = 401
              /\ users' = users
              /\ identities' = identities
              /\ ~rnewUser'[c] /\ ~rnewIdentity'[c]]_vars

C11_Witness ==
    \E c \in ResolveCalls :
        /\ Returned(c)
        /\ ArgsOf(c).email = None
        /\ rexisting[c] = None
        /\ Unwrap(rresult[c]) = MissingEmailOutcome
        /\ users # {} /\ identities # {}
        /\ IdentityRowsFor(c) = {}

----------------------------------------------------------------------------
(* C12: the step of invalidate_all_for_user(u) returns Ok and leaves no
   session that find_valid returns for u, whatever token is presented; the
   rows of every other user are the same before and after, and find_valid
   answers every other user's token as before. *)
C12_InvalidateAllForUserFrame ==
    [][\A u \in UserIds :
          CallInvalidateAllForUser(u) =>
              /\ Unwrap(lastCall').result = Ok(<<>>)
              /\ \A i \in issued :
                     i.user_id = u => find_valid(i.token)' = None
              /\ \A t \in PresentedTokens :
                     find_valid(t)' # None =>
                         Unwrap(find_valid(t)').session.user_id # u
              /\ { s \in sessions' : s.user_id # u }
                     = { s \in sessions : s.user_id # u }
              /\ \A i \in issued :
                     i.user_id # u =>
                         find_valid(i.token)' = find_valid(i.token)]_vars

C12_Witness ==
    /\ lastCall # None
    /\ Unwrap(lastCall).op = "invalidate_all_for_user"
    /\ Unwrap(lastCall).rows >= 1
    /\ \E i, j \in issued :
           /\ i.user_id = Unwrap(lastCall).arg
           /\ sessionExpiry[i.id] > now
           /\ find_valid(i.token) = None
           /\ j.user_id # i.user_id
           /\ find_valid(j.token) # None
           /\ Unwrap(find_valid(j.token)).session.id = j.id

----------------------------------------------------------------------------
(* The answered request and the context its guard produced *)
Answered(r) == gpc[r] = "done"
Authenticated(r) == Answered(r) /\ IsOk(Unwrap(gctx[r]))
ContextOf(r) == Unwrap(gctx[r])[2]
ResultOf(r) == Unwrap(gresult[r])

(* C13: for the context of every authenticated request and every provider,
   require_provider succeeds exactly when the provider equals the one
   recorded in the session and otherwise returns Forbidden; AzureUser and
   PasskeyUser admit the request exactly when its session's provider is
   theirs, answer Forbidden for any other provider, and pass on the
   guard's own failure when there is no context. *)
C13_RequireProvider ==
    \A r \in Requests :
        /\ Authenticated(r) =>
               /\ \A p \in AuthProviders :
                      IF ContextOf(r).session.provider = p
                      THEN require_provider(ContextOf(r), p) = Ok(<<>>)
                      ELSE /\ ~IsOk(require_provider(ContextOf(r), p))
                           /\ require_provider(ContextOf(r), p)[2]
                                  = "Forbidden"
               /\ IF ContextOf(r).session.provider = "azure_ad"
                  THEN ResultOf(r).AzureUser = Ok(ContextOf(r))
                  ELSE ResultOf(r).AzureUser[2] = "Forbidden"
               /\ IF ContextOf(r).session.provider = "passkey"
                  THEN ResultOf(r).PasskeyUser = Ok(ContextOf(r))
                  ELSE ResultOf(r).PasskeyUser[2] = "Forbidden"
        /\ (Answered(r) /\ ~Authenticated(r)) =>
               /\ ResultOf(r).AzureUser = Unwrap(gctx[r])
               /\ ResultOf(r).PasskeyUser = Unwrap(gctx[r])

C13_Witness ==
    \E r \in Requests :
        /\ Authenticated(r)
        /\ ContextOf(r).session.provider = "passkey"
        /\ ResultOf(r).PasskeyUser = Ok(ContextOf(r))
        /\ ResultOf(r).AzureUser[2] = "Forbidden"

(* C14: the guard continues past find_valid only with a stored, unexpired
   row whose digest is that of the presented cookie; it answers with a
   context only when that row is not expired and its user is stored, and
   the context holds that row and that user; every other answer (no
   cookie, no valid row, expired row, user gone) is an Unauthorized error
   with status 401, or the database's own error when it is unreachable. *)
C14_GuardFailsClosed ==
    [][\A r \in Requests :
          /\ (gpc[r] = "idle" /\ gpc'[r] = "found") =>
                 /\ Unwrap(greq'[r]) # None
                 /\ Unwrap(gfound'[r]).session \in sessions
                 /\ Unwrap(gfound'[r]).session.token_hash
                        = hash_token(Unwrap(Unwrap(greq'[r])))
                 /\ Unwrap(gfound'[r]).session.expires_at > now
          /\ (gpc[r] # "done" /\ gpc'[r] = "done") =>
                 IF IsOk(Unwrap(gctx'[r]))
                 THEN /\ gpc[r] = "found"
                      /\ Unwrap(gctx'[r])[2].session
                             = Unwrap(gfound[r]).session
                      /\ Unwrap(gctx'[r])[2].session.expires_at >= now
                      /\ Unwrap(gctx'[r])[2].user \in users
                      /\ Unwrap(gctx'[r])[2].user.id
                             = Unwrap(gfound[r]).session.user_id
                 ELSE \/ Unwrap(gctx'[r]) = DatabaseUnreachable
                      \/ /\ Unwrap(gctx'[r])[2] = "Unauthorized"
                         /\ into_response_status(Unwrap(gctx'[r])) = 401]_vars

C14_Witness ==
    \E r \in Requests :
        /\ Answered(r)
        /\ gfound[r] # None
        /\ Unwrap(gfound[r]).session \in sessions
        /\ Unwrap(gfound[r]).session.expires_at > now
        /\ \A u \in users : u.id # Unwrap(gfound[r]).session.user_id
        /\ Unwrap(gctx[r]) = Err("Unauthorized", "User not found")

(* C15: the optional guard never fails; it returns the context of the
   mandatory guard when that guard succeeds, and returns no identity
   exactly when the mandatory guard fails with an authentication
   (Unauthorized) error. *)
C15_OptionalGuardMirrorsGuard ==
    \A r \in Requests :
        Answered(r) =>
            /\ IsOk(ResultOf(r).OptionalAuth)
            /\ Authenticated(r) =>
                   ResultOf(r).OptionalAuth = Ok(Some(ContextOf(r)))
            /\ ResultOf(r).OptionalAuth = Ok(None) <=>
                   (/\ ~Authenticated(r)
                    /\ Unwrap(gctx[r])[2] = "Unauthorized")

----------------------------------------------------------------------------
(* C16: the step of invalidate(t) returns Ok whether or not a session is
   stored for t; it removes exactly the rows holding t's digest, so it
   changes nothing when there is none, a second invalidate(t) would remove
   nothing more, and find_valid answers every other issued token as
   before. *)
C16_InvalidateIdempotent ==
    [][\A t \in Tokens :
          CallInvalidate(t) =>
              /\ Unwrap(lastCall').result = Ok(<<>>)
              /\ sessions' = sessions \ RowsWithToken(t)
              /\ RowsWithToken(t) = {} => sessions' = sessions
              /\ { s \in sessions' : s.token_hash # hash_token(t) }
                     = sessions'
              /\ \A i \in issued :
                     i.token # t =>
                         find_valid(i.token)' = find_valid(i.token)]_vars

C16_Witness ==
    /\ lastCall # None
    /\ Unwrap(lastCall).op = "invalidate"
    /\ Unwrap(lastCall).rows = 0
    /\ Unwrap(lastCall).result = Ok(<<>>)
    /\ Unwrap(lastCall).arg \in invalidated
    /\ \E i, j \in issued :
           /\ i.token = Unwrap(lastCall).arg
           /\ sessionExpiry[i.id] > now
           /\ j.user_id = i.user_id
           /\ j.token # i.token
           /\ find_valid(j.token) # None

(* C17: the step of cleanup_expired removes exactly the rows with
   expires_at <= now and returns their number, leaving the other rows as
   they were, so that a run that follows at once counts nothing; over all
   runs no session has been counted twice and the returned counts add up
   to the number of sessions the runs removed. *)
C17_CleanupExpiredCounts ==
    [][CallCleanupExpired =>
          /\ sessions' = sessions \ ExpiredRows
          /\ \A s \in sessions : s.expires_at > now => s \in sessions'
          /\ Unwrap(lastCall').result = Ok(Cardinality(ExpiredRows))
          /\ ExpiredRows' = {}
          /\ \A id \in SessionIds : cleanedCount'[id] <= 1
          /\ cleanupReturned'
                 = Cardinality({ id \in SessionIds : cleanedCount'[id] >= 1 })
          /\ \A id \in SessionIds :
                 cleanedCount'[id] >= 1 => RowsWithId(id)' = {}]_vars

C17_Witness ==
    /\ lastCall # None
    /\ Unwrap(lastCall).op = "cleanup_expired"
    /\ Unwrap(lastCall).result = Ok(1)
    /\ cleanupReturned = 1
    /\ \E i, j \in issued :
           /\ cleanedCount[i.id] = 1
           /\ sessionExpiry[i.id] <= now
           /\ RowsWithId(i.id) = {}
           /\ cleanedCount[j.id] = 0
           /\ find_valid(j.token) # None

(* C18: the step of extend on a stored session replaces its row by the
   same row with expires_at = now + 24h and returns it: id, user, linked
   identity, provider, token digest and created_at are the old ones, the
   raw token issued for the session finds the new row, and every other
   row is as before; extend on a session with no row returns an error and
   changes nothing. *)
C18_ExtendChangesOnlyExpiry ==
    [][\A id \in SessionIds :
          CallExtend(id) =>
              IF RowsWithId(id) = {}
              THEN /\ sessions' = sessions
                   /\ ~IsOk(Unwrap(lastCall').result)
              ELSE \E old \in RowsWithId(id) :
                     LET new == [old EXCEPT !.expires_at =
                                    now + Hours(DEFAULT_SESSION_DURATION_HOURS)]
                     IN /\ RowsWithId(id) = {old}
                        /\ sessions' = (sessions \ {old}) \cup {new}
                        /\ Unwrap(lastCall').result = Ok(new)
                        /\ new.token_hash = old.token_hash
                        /\ \A i \in issued :
                               i.id = id =>
                                   /\ find_valid(i.token)' # None
                                   /\ Unwrap(find_valid(i.token)').session
                                          = new
                        /\ \A s \in sessions : s.id # id => s \in sessions'
                        /\ \A i \in issued :
                               i.id # id =>
                                   find_valid(i.token)'
                                       = find_valid(i.token)]_vars

C18_Witness ==
    /\ lastCall # None
    /\ Unwrap(lastCall).op = "extend"
    /\ IsOk(Unwrap(lastCall).result)
    /\ LET row == Unwrap(lastCall).result[2]
       IN /\ row \in sessions
          /\ row.created_at < now
          /\ row.expires_at = now + Hours(DEFAULT_SESSION_DURATION_HOURS)
          /\ \E i, j \in issued :
                 /\ i.id = row.id
                 /\ Unwrap(find_valid(i.token)).session = row
                 /\ j.id # i.id
                 /\ \E s \in sessions :
                        /\ s.id = j.id
                        /\ s.expires_at # row.expires_at

(* C19: any two sessions that create has returned, for the same user or
   not, have different ids, different tokens and different digests; a
   token never finds another session than its own, and a session whose row
   is stored and unexpired is found by its token whatever has happened to
   the other. *)
C19_IndependentSessions ==
    \A i, j \in issued :
        /\ (i.id # j.id \/ i.token # j.token) =>
               /\ i.id # j.id
               /\ i.token # j.token
               /\ hash_token(i.token) # hash_token(j.token)
        /\ Cardinality(issued) = sessionsCreated
        /\ find_valid(j.token) # None =>
               Unwrap(find_valid(j.token)).session.id = j.id
        /\ (\E s \in sessions : s.id = j.id /\ s.expires_at > now) =>
               find_valid(j.token) # None

C19_Witness ==
    /\ lastCall # None
    /\ Unwrap(lastCall).op = "invalidate"
    /\ Unwrap(lastCall).rows = 1
    /\ \E i, j \in issued :
           /\ i.token = Unwrap(lastCall).arg
           /\ sessionExpiry[i.id] > now
           /\ find_valid(i.token) = None
           /\ j.user_id = i.user_id
           /\ j.id # i.id
           /\ find_valid(j.token) # None
           /\ Unwrap(find_valid(j.token)).session.id = j.id

----------------------------------------------------------------------------
(* C20: a store writes its record with an expiry of now + 600 s, ten
   minutes; a consume call whose key holds a record that has reached its
   expiry returns the not-found outcome (or the store's own failure) in
   its first step and never a value, although no call removed the
   record. *)
C20_ExpiredCeremonyUnreadable ==
    [][/\ PASSKEY_REG_TTL = 10 * 60
       /\ \A k \in RegKeys :
              lastStored'[k] # lastStored[k] =>
                  /\ redis'[k] # None
                  /\ Unwrap(redis'[k]).expires_at = now + PASSKEY_REG_TTL
       /\ \A w \in Workers :
              (/\ cpc[w] = "idle" /\ cpc'[w] # "idle"
               /\ redis[Unwrap(ckey'[w])] # None
               /\ Unwrap(redis[Unwrap(ckey'[w])]).expires_at <= now) =>
                  /\ cpc'[w] = "done"
                  /\ Unwrap(cresult'[w]) \in
                         {NotFoundOutcome, Err("Redis", "unreachable")}
                  /\ deliveries' = deliveries]_vars

C20_Witness ==
    \E w \in Workers :
        /\ cpc[w] = "done"
        /\ startExpired[w]
        /\ ~startConsumed[w]
        /\ Unwrap(cresult[w]) = NotFoundOutcome
        /\ lastStored[Unwrap(ckey[w])] # 0
        /\ deliveries[lastStored[Unwrap(ckey[w])]] = 0
        /\ redis[Unwrap(ckey[w])] # None
        /\ Unwrap(redis[Unwrap(ckey[w])]).expires_at = now

----------------------------------------------------------------------------
(* C21: a store under a key that already holds a record replaces the value
   and the TTL: the record then holds the second value and expires 600 s
   after the second store, a consume whose GET follows reads the second
   value, and no consume call returns the first value once the second has
   been stored. *)
C21_SecondStoreReplaces ==
    [][/\ \A k \in RegKeys :
              (lastStored'[k] # lastStored[k] /\ redis[k] # None) =>
                  /\ redis'[k] # None
                  /\ from_str(Unwrap(redis'[k]).value)[2][1]
                         = PasskeyRegistration(lastStored'[k])
                  /\ Unwrap(redis'[k]).expires_at = now + PASSKEY_REG_TTL
       /\ \A w \in Workers :
              (cpc[w] = "idle" /\ cpc'[w] = "got") =>
                  from_str(Unwrap(nonce'[w]))[2][1]
                      = PasskeyRegistration(lastStored[Unwrap(ckey'[w])])
       /\ \A c \in Challenges :
              deliveries'[c] > deliveries[c] =>
                  \E k \in RegKeys : lastStored[k] = c]_vars

----------------------------------------------------------------------------
(* C22: a consume call whose key holds no readable record when its GET
   runs, because nothing was stored under it (as for a forged token), the
   record was consumed, or the record has expired, returns in that step
   one and the same error, Unauthorized("Invalid or expired state"), or
   the store's own failure, and never a value; that error has the kind
   and the status, 401, of the guard's answer to a bad session token. *)
BadSessionTokenOutcome == Err("Unauthorized", "Invalid or expired session")

C22_ConsumeFailuresUniform ==
    [][\A w \in Workers :
          (cpc[w] = "idle" /\ cpc'[w] # "idle") =>
              LET k == Unwrap(ckey'[w])
                  neverStored == lastStored[k] = 0
                  consumed == lastStored[k] # 0 /\ redis[k] = None
                  expired == /\ redis[k] # None
                             /\ Unwrap(redis[k]).expires_at <= now
              IN /\ (neverStored \/ consumed \/ expired) =>
                        /\ cpc'[w] = "done"
                        /\ Unwrap(cresult'[w]) \in
                               {NotFoundOutcome, Err("Redis", "unreachable")}
                 /\ (cpc'[w] = "done"
                       /\ Unwrap(cresult'[w]) # Err("Redis", "unreachable")) =>
                        /\ neverStored \/ consumed \/ expired
                        /\ Unwrap(cresult'[w]) = NotFoundOutcome
                        /\ NotFoundOutcome[2] = BadSessionTokenOutcome[2]
                        /\ into_response_status(Unwrap(cresult'[w]))
                               = into_response_status(BadSessionTokenOutcome)
                        /\ into_response_status(Unwrap(cresult'[w])) = 401]_vars

C22_Witness ==
    \E w, v \in Workers :
        /\ cpc[w] = "done" /\ cpc[v] = "done"
        /\ startExpired[w] /\ ~startConsumed[w]
        /\ ~startConsumed[v] /\ ~startExpired[v]
        /\ Unwrap(cresult[w]) = NotFoundOutcome
        /\ cresult[v] = cresult[w]

----------------------------------------------------------------------------
(* C23: a resolve call that has returned an error has inserted nothing: the
   store holds no users row and no external_identities row that the call
   restVars. *)
C23_ResolveAllOrNothing ==
    \A c \in ResolveCalls :
        (Returned(c) /\ ~ReturnedOk(c)) =>
            /\ ~rnewUser[c]
            /\ ~rnewIdentity[c]

----------------------------------------------------------------------------
(* Handler calls as the claims speak of them *)
HandlerDone(c) == hpc[c] = "done"
HandlerOk(c) == HandlerDone(c) /\ IsOk(Unwrap(hresult[c]))
HandlerOf(c) == Unwrap(hargs[c]).handler
SessionsFrom(c) == { id \in SessionIds : sessionOrigin[id] = Some(c) }

(* C24: a handler call whose session lookup failed because the database
   could not be reached creates no user and no session, and returns the
   database's error. *)
C24_StoreFailureSurfaced ==
    \A c \in HandlerCalls :
        hlookupFailed[c] =>
            /\ ~hnewUser[c]
            /\ SessionsFrom(c) = {}
            /\ HandlerDone(c) => Unwrap(hresult[c]) = DatabaseUnreachable

(* C25: every session that find_valid accepts was created by a
   password_login call whose password check had succeeded or by a
   password_signup call, and the response of a passkey_register_start call
   never sets a cookie holding a session token. *)
C25_SessionsOnlyAfterAuthentication ==
    /\ \A i \in issued :
           find_valid(i.token) # None =>
               \E c \in HandlerCalls :
                   /\ sessionOrigin[i.id] = Some(c)
                   /\ \/ HandlerOf(c) = "password_login" /\ hverified[c]
                      \/ HandlerOf(c) = "password_signup"
    /\ \A c \in HandlerCalls :
           (hpc[c] # "idle" /\ HandlerOf(c) = "passkey_register_start") =>
               hcookie[c] = None

(* C26: a password_login step that meets an unknown email, a user with no
   password record or a password that does not verify ends the call with
   one and the same error, Unauthorized("Invalid email or password"),
   status 401 (or with the database's own error); a login call creates a
   session only in its last step, after its password check succeeded, and
   a step that ends a login call with an error leaves the sessions as they
   were. *)
C26_LoginFailsUniformly ==
    [][\A c \in HandlerCalls :
          (hpc[c] # "done" /\ hpc'[c] # hpc[c]
             /\ Unwrap(hargs'[c]).handler = "password_login") =>
              LET a == Unwrap(hargs'[c])
                  unknownEmail == /\ hpc[c] = "idle"
                                  /\ a.email # "" /\ a.password # ""
                                  /\ find_by_email(a.email) = None
                  record == find_by_user_id(Unwrap(huser[c]).id)
                  noRecord == hpc[c] = "login_password" /\ record = None
                  wrongPassword ==
                      /\ hpc[c] = "login_password" /\ record # None
                      /\ ~verify(a.password, Unwrap(record).password_hash)
              IN /\ (unknownEmail \/ noRecord \/ wrongPassword) =>
                        /\ hpc'[c] = "done"
                        /\ Unwrap(hresult'[c]) \in
                               {InvalidLogin, DatabaseUnreachable}
                 /\ (hpc'[c] = "done" /\ ~IsOk(Unwrap(hresult'[c]))) =>
                        /\ sessions' = sessions
                        /\ hcookie'[c] = None
                        /\ Unwrap(hresult'[c])[2] = "Unauthorized" =>
                               /\ Unwrap(hresult'[c]) = InvalidLogin
                               /\ into_response_status(InvalidLogin) = 401
                               /\ unknownEmail \/ noRecord \/ wrongPassword
                 /\ sessions' # sessions =>
                        /\ hpc[c] = "login_session" /\ hverified[c]
                        /\ IsOk(Unwrap(hresult'[c]))
                        /\ \E n \in sessions' \ sessions :
                               /\ sessions' = sessions \cup {n}
                               /\ n.user_id = Unwrap(huser[c]).id
                               /\ hcookie'[c] # None
                               /\ n.token_hash
                                      = hash_token(Unwrap(hcookie'[c]))]_vars

C26_Witness ==
    \E c, d \in HandlerCalls :
        /\ HandlerDone(c) /\ HandlerOf(c) = "password_login"
        /\ Unwrap(hresult[c]) = InvalidLogin
        /\ huser[c] # None
        /\ find_by_user_id(Unwrap(huser[c]).id) # None
        /\ ~hverified[c]
        /\ SessionsFrom(c) = {}
        /\ HandlerOk(d) /\ HandlerOf(d) = "password_signup"
        /\ Unwrap(hargs[d]).email = Unwrap(hargs[c]).email
        /\ Unwrap(hargs[d]).password # Unwrap(hargs[c]).password

----------------------------------------------------------------------------
(* C27: every update_counter call on a stored credential leaves a stored
   counter strictly greater than the one stored before it. *)
C27_CounterStrictlyMonotonic ==
    [][\A k \in credentials :
          \A n \in credentials' :
              (n.id = k.id /\ pkLastCall' # pkLastCall
                 /\ Unwrap(pkLastCall').op = "update_counter"
                 /\ Unwrap(pkLastCall').credential_id = k.credential_id) =>
                  n.counter > k.counter]_vars

(* C30: after update_counter(credential_id, c) on a stored credential,
   find_by_credential_id returns the credential with a counter that is the
   number c. *)
C30_CounterRoundTrip ==
    (pkLastCall # None /\ Unwrap(pkLastCall).op = "update_counter"
       /\ Unwrap(pkLastCall).before # None) =>
        LET found == find_by_credential_id(Unwrap(pkLastCall).credential_id)
        IN /\ found # None
           /\ SameNumber(Unwrap(found).counter, Unwrap(pkLastCall).counter)

----------------------------------------------------------------------------
(* C28: no user ever has two password records, and after
   Password::update(user, p) exactly one record exists for that user and
   its digest verifies p, whether or not a record existed before the
   call. *)
C28_PasswordUpdateUpserts ==
    /\ \A p, q \in passwords : p.user_id = q.user_id => p = q
    /\ (pwLastCall # None /\ Unwrap(pwLastCall).op = "update") =>
           LET rows == { p \in passwords :
                           p.user_id = Unwrap(pwLastCall).user_id }
           IN /\ Cardinality(rows) = 1
              /\ \A p \in rows :
                     verify(Unwrap(pwLastCall).password, p.password_hash)

----------------------------------------------------------------------------
(* C29: whenever no increment is in progress, every counter equals its
   initial value, 0, plus the number of increment calls made on it,
   whatever number of workers made them: each call has raised its own
   counter by exactly 1 and no other counter, and no update is lost. *)
C29_NoIncrementLost ==
    (\A w \in Workers : mpc[w] = "idle") =>
        \A k \in MetricCounters : counts[k] = incremented[k]

----------------------------------------------------------------------------
(* C33: once find_valid has rejected a token that Session::create issued
   (its session expired, or its row was removed by invalidate or
   cleanup_expired), find_valid rejects it in every later state: no call
   of extend brings the session back. *)
C33_ExtendNeverResurrects ==
    [][\A i \in issued :
           find_valid(i.token) = None => find_valid(i.token)' = None]_vars

----------------------------------------------------------------------------
(* C37: at every instant the three expiry tests agree on every stored
   session: find_valid rejects its token exactly when cleanup_expired
   would delete its row and exactly when Session::is_expired is true of
   it, also at the instant expires_at = now. *)
C37_ExpiryTestsAgree ==
    \A i \in issued : \A s \in sessions :
        s.id = i.id =>
            /\ (find_valid(i.token) = None) <=> (s \in ExpiredRows)
            /\ (find_valid(i.token) = None) <=> is_expired(s)

----------------------------------------------------------------------------
(* C38: a password_signup call that has returned an error added no User,
   no Password and no Session row; one that has returned Ok added exactly
   one User row for its email, one Password row for that user and one
   Session. *)
C38_SignupAllOrNothing ==
    \A c \in HandlerCalls :
        (HandlerDone(c) /\ HandlerOf(c) = "password_signup") =>
            IF HandlerOk(c)
            THEN /\ hnewUser[c]
                 /\ Cardinality({ u \in users :
                        u.email = Unwrap(hargs[c]).email }) = 1
                 /\ Cardinality({ p \in passwords :
                        p.user_id = Unwrap(huser[c]).id }) = 1
                 /\ Cardinality(SessionsFrom(c)) = 1
            ELSE /\ ~hnewUser[c]
                 /\ SessionsFrom(c) = {}
                 /\ huser[c] # None =>
                        find_by_user_id(Unwrap(huser[c]).id) = None

----------------------------------------------------------------------------
ConvDone == conv # None /\ Unwrap(conv).parsed # None
ConvParsed == Unwrap(Unwrap(conv).parsed)
RequestEnums == {"RequestStatus", "RequestCategory", "RequestPriority"}

(* C32: for RequestStatus, RequestCategory and RequestPriority, parsing
   the string form of a value returns that value; the result of parsing
   a string is the result of parsing it in lower case and in upper case;
   and a string that is, letter case aside, the name of no value of the
   type is an error. *)
C32_RequestEnumsRoundTrip ==
    (ConvDone /\ Unwrap(conv).type \in RequestEnums) =>
        LET c == Unwrap(conv)
        IN /\ c.value # None => ConvParsed = Ok(Unwrap(c.value))
           /\ IsOk(ConvParsed) =>
                  /\ Parse(c.type, to_lowercase(c.text)) = ConvParsed
                  /\ Parse(c.type, to_uppercase(c.text)) = ConvParsed
           /\ IsOk(ConvParsed) <=>
                  \E v \in EnumValues[c.type] :
                      to_lowercase(Display(c.type, v)) = to_lowercase(c.text)
           /\ ~IsOk(ConvParsed) => ConvParsed[1] = "Err"

(* RequestCategory::Ops displayed as "Ops", which is not the upper-case
   string the parser matches on, and parsed back. *)
C32_Witness ==
    /\ ConvDone
    /\ Unwrap(conv).type = "RequestCategory"
    /\ Unwrap(conv).value = Some("Ops")
    /\ Unwrap(conv).text # to_uppercase(Unwrap(conv).text)
    /\ ConvParsed = Ok("Ops")

(* C39: for every AuthProvider and every AuditAction, converting the
   value to its stored string and back returns the value, without a
   panic. *)
C39_StoredEnumsRoundTrip ==
    (ConvDone /\ Unwrap(conv).type \in {"AuthProvider", "AuditAction"}) =>
        (Unwrap(conv).value # None =>
             ConvParsed = Ok(Unwrap(Unwrap(conv).value)))

----------------------------------------------------------------------------
(* C34: passkey_register_finish inserts a passkey credential only when,
   at that moment, the session token in its cookie identifies a valid
   session (not expired, not invalidated by logout or
   invalidate_all_for_user). *)
C34_FinishNeedsValidSession ==
    [][\A c \in RegistrationCalls :
           (hpc[c] = "finish_create" /\ hcredential'[c]) =>
               find_valid(Unwrap(Unwrap(hargs[c]).cookie)) # None]_vars

----------------------------------------------------------------------------
(* A passkey_register_finish call that consumed the ceremony record and
   then failed in finish_passkey_registration or in
   PasskeyCredential::create. *)
FinishFailedAfterConsume(c) ==
    /\ HandlerDone(c)
    /\ HandlerOf(c) = "passkey_register_finish"
    /\ hnonce[c] # None
    /\ Unwrap(hresult[c]) \in
           {Err("Unauthorized", "Passkey registration failed"),
            DatabaseUnreachable}

(* The ceremony record a finish call read is the latest one stored under
   its key: no register_start has stored a new one since. *)
NoNewStartSince(c) ==
    lastStored[RegKey(Unwrap(Unwrap(hargs[c]).cookie))]
        = from_str(Unwrap(hnonce[c]))[2][1][2]

(* C35: a passkey_register_finish call whose credential verification or
   credential insert failed has created no credential and has left no
   ceremony record under its token; and, as long as no new
   passkey_register_start has stored one, a finish call that starts
   afterwards with the same token gets no record and returns an error,
   Unauthorized "Invalid or expired state" whenever Redis answers. *)
C35_FailedFinishConsumesRecord ==
    [][\A c \in RegistrationCalls :
           FinishFailedAfterConsume(c)' =>
               /\ ~hcredential'[c]
               /\ NoNewStartSince(c)' =>
                      /\ RedisGet(redis, RegKey(Unwrap(Unwrap(hargs[c]).cookie)))'
                             = None
                      /\ \A d \in RegistrationCalls :
                             (/\ FinishFailedAfterConsume(c)
                              /\ hpc[d] = "idle"
                              /\ hpc'[d] # "idle"
                              /\ Unwrap(hargs'[d]).handler
                                     = "passkey_register_finish"
                              /\ Unwrap(hargs'[d]).cookie
                                     = Unwrap(hargs[c]).cookie) =>
                                 /\ hpc'[d] = "done"
                                 /\ Unwrap(hresult'[d]) \in
                                        {NotFoundOutcome,
                                         Err("Redis", "unreachable")}]_vars

(* A finish call failed in verification after consuming the record, and
   a later finish call with the same token was refused. *)
C35_Witness ==
    \E c, d \in RegistrationCalls :
        /\ c # d
        /\ FinishFailedAfterConsume(c)
        /\ Unwrap(hresult[c]) = Err("Unauthorized",
                                    "Passkey registration failed")
        /\ NoNewStartSince(c)
        /\ HandlerDone(d)
        /\ HandlerOf(d) = "passkey_register_finish"
        /\ Unwrap(hargs[d]).cookie = Unwrap(hargs[c]).cookie
        /\ hnonce[d] = None
        /\ Unwrap(hresult[d]) = NotFoundOutcome
        /\ credentials = {}

(* The handlers that address one request by its id. *)
OwnedHandlers ==
    {"get_request", "update_request", "delete_request", "get_request_audit"}

(* Call c returns in this step. *)
RequestReturns(c) == qpc[c] # "done" /\ qpc'[c] = "done"

(* C31: get_request, update_request, delete_request and get_request_audit
   return success only when the user_id of the request they found is the
   authenticated user's id; a call by any other user that found the
   request returns Forbidden in its first step, and that step leaves the
   requests and the audit log as they were. *)
C31_OnlyOwnerSucceeds ==
    [][\A c \in RequestCalls :
           (RequestReturns(c) /\ Unwrap(qlast').handler \in OwnedHandlers) =>
               LET l == Unwrap(qlast')
               IN /\ IsOk(l.result) => l.owner = Some(Some(l.auth))
                  /\ (l.owner # None /\ l.owner # Some(Some(l.auth))) =>
                         /\ l.result[1] = "Err"
                         /\ l.result[2] = "Forbidden"
                         /\ qpc[c] = "idle"
                         /\ UNCHANGED <<requestRows, audit_logs>>]_vars

(* User 2 asked to update the request of user 1 and got Forbidden; the
   request is as it was created, with its one audit entry. *)
C31_Witness ==
    /\ qlast # None
    /\ Unwrap(qlast).handler = "update_request"
    /\ Unwrap(qlast).auth = 2
    /\ Unwrap(qlast).owner = Some(Some(1))
    /\ Unwrap(qlast).result
           = Err("Forbidden", "You can only modify your own requests")
    /\ \E r \in requestRows : r.user_id = Some(1) /\ r.status = "Open"
    /\ Cardinality(audit_logs) = 1

(* The StatusChanged entry call c wrote, if it is still in the table. *)
EntryOf(c, logs) == { e \in logs : qaudit[c] = Some(e.id) }

(* C36: when a call of Request::update that wrote a StatusChanged entry
   returns and the entry is in the audit log, its UPDATE statement ran and
   succeeded, the request's status was the entry's old_value immediately
   before the statement and is its new_value immediately after; and an
   UPDATE that changes the status is made by a call that wrote an
   entry. *)
C36_StatusEntriesTookEffect ==
    [][\A c \in RequestCalls :
           /\ (RequestReturns(c) /\ qaudit[c] # None) =>
                  \A e \in EntryOf(c, audit_logs') :
                      /\ qpc[c] = "update_exec"
                      /\ IsOk(Unwrap(qlast').result)
                      /\ Some(RequestStatus_to_string(
                             Unwrap(find_request_by_id(e.request_id)).status))
                             = e.old_value
                      /\ Some(RequestStatus_to_string(
                             Unwrap(find_request_by_id(e.request_id)').status))
                             = e.new_value
           /\ (/\ RequestReturns(c)
               /\ qpc[c] = "update_exec"
               /\ IsOk(Unwrap(qlast').result)
               /\ Unwrap(qlast').result[2].status
                      # Unwrap(find_request_by_id(
                                   Unwrap(qargs[c]).id)).status) =>
                  qaudit[c] # None]_vars

====
